---- MODULE Spec2Model ----
(***************************************************************************)
(* Webhook gateway authentication and pairing (pkg/health/server.go) and   *)
(* the workspace state manager (pkg/state/state.go) of picoclaw.           *)
(*                                                                         *)
(* The specifications below share one set of variables:                    *)
(*   Spec       the gateway: /pair, /webhook, /health requests interleaved *)
(*              at the lock boundaries of the handlers, plus rotations;    *)
(*   SpecProbe  the gateway with its readiness probe and with request      *)
(*              contexts that end while the processor runs;                *)
(*   SpecLive   the dispatch to the processor, with fairness;              *)
(*   SpecCheck  the gateway with RegisterCheck stepped through the probe   *)
(*              it runs while holding the server's lock;                   *)
(*   SpecStop   the listener: Start, StartContext, Stop and the drain;     *)
(*   SpecState  the state manager: setters stepped through saveAtomic,     *)
(*              with I/O failures and process crashes;                     *)
(*   SpecRace   two goroutines calling the setters of one manager;         *)
(*   SpecShared two managers over one workspace, running concurrently;     *)
(*   SpecFrame  one manager whose setters are called for two tenants;      *)
(*   SpecView   the state manager with a caller of GetActiveAuth;          *)
(*   SpecReload a second manager constructed over the first one's files;   *)
(*   SpecJWT    validateJWT applied to every token of a bounded universe.  *)
(***************************************************************************)
EXTENDS Integers, Sequences, FiniteSets, TLC

VARIABLES
    \* ---- Server fields (server.go:33-49)
    agentLoop,       \* s.agentLoop != nil
    requirePairing,  \* s.requirePairing
    jwtSecret,       \* s.jwtSecret
    configPath,      \* s.configPath
    pairedTokens,    \* s.pairedTokens: set of token hashes
    pairingCode,     \* s.pairingCode
    pairingUsed,     \* s.pairingUsed
    ready,           \* s.ready
    checks,          \* s.checks: check name -> Check.Status
    probing,         \* name of the check whose checkFn is running inside
                     \* RegisterCheck, with s.mu held ("" when none is)
    run,             \* s.server: listening or not, and the Shutdown in progress
    \* ---- environment of the gateway
    cfgTokens,       \* Config Store: cfg.Gateway.PairedTokens on disk
    issued,          \* number of bearer tokens generated by this process
    req,             \* in-flight requests: slot -> handler position and locals
    clock,           \* wall clock (time.Now)
    \* ---- history of the gateway (read by properties only)
    exchanges,       \* successful exchanges since the last rotation
    \* ---- state manager (state.go)
    mem,             \* manager -> <<sm.state>> (<<>> before NewManager)
    mu,              \* manager -> sm.mu is held
    call,            \* caller -> the call in progress and its locals
    disk,            \* workspace files: state file, temp file, legacy file
    faults,          \* I/O operations that have failed so far
    \* ---- history of the state manager (read by properties only)
    failed,          \* manager -> the last setter call that failed, if no
                     \* save has succeeded since
    persisted,       \* manager -> its latest saveAtomic returned nil
    \* ---- a caller of the state manager
    got,             \* the map GetActiveAuth handed to the caller, if any
    \* ---- validateJWT harness
    jwtIn,           \* token string under test
    jwtOut           \* result of validateJWT on it

probeVars == <<ready, checks, probing, run>>
gatewayVars == <<agentLoop, requirePairing, jwtSecret, configPath, pairedTokens,
                 pairingCode, pairingUsed, cfgTokens, issued, req,
                 exchanges, probeVars>>
stateVars == <<mem, mu, call, disk, faults, failed, persisted, got>>
jwtVars == <<jwtIn, jwtOut>>
vars == <<gatewayVars, stateVars, jwtVars, clock>>

----------------------------------------------------------------------------
(* Bounds of the model. *)

\* bearer tokens one process generates
MaxTokens == 2
\* last instant of the wall clock
MaxClock == 2
\* I/O operations of the state manager that fail in one run
MaxFaults == 1

----------------------------------------------------------------------------
(* Strings (package strings, fmt, encoding/hex). *)

HasPrefix(s, p) == Len(s) >= Len(p) /\ SubSeq(s, 1, Len(p)) = p

TrimPrefix(s, p) == IF HasPrefix(s, p) THEN SubSeq(s, Len(p) + 1, Len(s)) ELSE s

RECURSIVE TrimLeft(_)
TrimLeft(s) ==
    IF Len(s) > 0 /\ SubSeq(s, 1, 1) = " " THEN TrimLeft(SubSeq(s, 2, Len(s))) ELSE s

RECURSIVE TrimRight(_)
TrimRight(s) ==
    IF Len(s) > 0 /\ SubSeq(s, Len(s), Len(s)) = " "
    THEN TrimRight(SubSeq(s, 1, Len(s) - 1)) ELSE s

\* a test for the empty string in place of a trim (faulty variant)
TrimNothing(s) == s

TrimSpace(s) == TrimRight(TrimLeft(s))

Digit(d) == SubSeq("0123456789abcdef", d + 1, d + 1)

RECURSIVE Itoa(_)
Itoa(n) == IF n < 10 THEN Digit(n) ELSE Itoa(n \div 10) \o Digit(n % 10)

RECURSIVE PadZero(_, _)
PadZero(s, w) == IF Len(s) >= w THEN s ELSE PadZero("0" \o s, w)

\* fmt.Sprintf("%06d", n)
Sprintf06d(n) == PadZero(Itoa(n), 6)

\* hex.EncodeToString of one byte
HexByte(b) == Digit(b \div 16) \o Digit(b % 16)

----------------------------------------------------------------------------
(* Tokens and hashes. *)

\* hashToken: hex SHA-256; the values are the real digests of the strings
\* the model presents.
hashToken(s) ==
    CASE s = "" -> "e3b0c44298fc1c149afbf4c8996fb92427ae41e4649b934ca495991b7852b855"
      [] s = "Basic abc" -> "4c9122f274f947bfc21ddfcfb92010d8b3e7d005330b4fb3245b57129b62d861"
      [] s = "pc_00" -> "f9d93bd33223acc64a21f5d15425f6b4dc50a623d463ea3d3de749d3eeda3032"
      [] s = "pc_01" -> "c3801b443eead9916d6b64a2fe30159dddfaf649a6f550a681e4f8265d8ec0ea"
      [] s = "pc_02" -> "3191b20cf122176ab58965fb1e1881b215604a4f6bc57f4b7cb86f3e84b3b993"
      [] s = "pc_03" -> "bdf27b36bf54046c462a334bf2a4c301ad9c1992d12621957597c7cfcf51abe4"
      [] s = "HS256.u1,9,-.s3cret" -> "3ed960f468663b1f5e47a44670e9f2b45d174682d488c0c65c905e4336ff4b70"
      [] s = "HS256.u1,0,-.s3cret" -> "5bd0d93fd55aabdc1c5e4222df1f4278025e566ad273274acb28e0b0d199bf5f"

\* generateBearerToken: "pc_" + hex of the random bytes, and its hash.  The
\* 32 random bytes are one byte here, and the b-th token a process generates
\* has the bytes b: two draws of 256 random bits do not coincide.
generateBearerToken(b) ==
    LET token == "pc_" \o HexByte(b)
    IN  [token |-> token, hash |-> hashToken(token)]

\* outcomes of rand.Int(rand.Reader, 1000000) the model draws
CodeNums == {7}

\* generatePairingCode: the results it can return, the fallback included
generatePairingCode == {Sprintf06d(n) : n \in CodeNums} \cup {"000000"}

----------------------------------------------------------------------------
(* JWT validation (validateJWT and the jwt.ParseWithClaims call it makes).  *)
(* A token string is "<alg>.<sub>,<exp>,<nbf>.<key>": the header's alg, the *)
(* payload's claims ("-" for an absent NumericDate) and the key the         *)
(* signature was made with, in the three dot-separated segments of the      *)
(* compact serialization.                                                   *)

\* the segments of s between occurrences of the one-character separator sep
RECURSIVE Split(_, _, _)
Split(s, sep, cur) ==
    IF Len(s) = 0 THEN <<cur>>
    ELSE IF SubSeq(s, 1, 1) = sep
         THEN <<cur>> \o Split(SubSeq(s, 2, Len(s)), sep, "")
         ELSE Split(SubSeq(s, 2, Len(s)), sep, cur \o SubSeq(s, 1, 1))

IsDigits(s) ==
    Len(s) > 0 /\ \A i \in 1..Len(s) : \E d \in 0..9 : SubSeq(s, i, i) = Digit(d)

RECURSIVE Atoi(_)
Atoi(s) ==
    IF Len(s) = 0 THEN 0
    ELSE 10 * Atoi(SubSeq(s, 1, Len(s) - 1))
         + (CHOOSE d \in 0..9 : SubSeq(s, Len(s), Len(s)) = Digit(d))

\* a NumericDate claim: <<>> when absent, <<t>> when present
DateOK(s) == s = "-" \/ IsDigits(s)
ParseDate(s) == IF s = "-" THEN <<>> ELSE <<Atoi(s)>>
FormatDate(d) == IF Len(d) = 0 THEN "-" ELSE Itoa(d[1])

\* the compact serialization of a token
EncodeJWT(t) ==
    t.alg \o "." \o t.sub \o "," \o FormatDate(t.exp) \o "," \o FormatDate(t.nbf)
          \o "." \o t.key

\* signing methods registered with the library, and the HMAC ones among them
SigningMethods == {"HS256", "HS512", "RS256", "none"}
SigningMethodHMAC == {"HS256", "HS512"}

\* jwt.ParseWithClaims(tokenString, claims, keyFunc) at time now, with the
\* keyFunc of validateJWT: [err, valid, sub].  The library parses the three
\* segments, looks the alg up, asks keyFunc for the key, verifies the
\* signature, and then validates the registered claims exp and nbf.
ParseWithClaims(tokenString, secret, now) ==
    LET seg == Split(tokenString, ".", "")
        pay == IF Len(seg) = 3 THEN Split(seg[2], ",", "") ELSE <<>>
        Fail(e) == [err |-> e, valid |-> FALSE, sub |-> ""]
    IN  IF Len(seg) # 3 \/ Len(pay) # 3 THEN Fail("token is malformed")
        ELSE IF ~DateOK(pay[2]) \/ ~DateOK(pay[3]) THEN Fail("token is malformed")
        ELSE IF seg[1] \notin SigningMethods THEN Fail("signing method is unavailable")
        ELSE IF seg[1] \notin SigningMethodHMAC THEN Fail("unexpected signing method")
        ELSE IF seg[3] # secret THEN Fail("signature is invalid")
        ELSE LET exp == ParseDate(pay[2])
                 nbf == ParseDate(pay[3])
             IN  IF Len(exp) = 1 /\ ~(now < exp[1]) THEN Fail("token is expired")
                 ELSE IF Len(nbf) = 1 /\ now < nbf[1] THEN Fail("token is not valid yet")
                 ELSE [err |-> "", valid |-> TRUE, sub |-> pay[1]]

\* validateJWT without the test of claims.Sub (faulty variant)
validateJWTAnySubject(tokenString, secret, now) ==
    LET p == ParseWithClaims(tokenString, secret, now)
    IN  IF p.err # "" THEN [ok |-> FALSE, sub |-> "", err |-> "invalid token: " \o p.err]
        ELSE IF ~p.valid THEN [ok |-> FALSE, sub |-> "", err |-> "token is not valid"]
        ELSE [ok |-> TRUE, sub |-> p.sub, err |-> ""]

\* validateJWT(tokenString) with s.jwtSecret = secret, at time now:
\* [ok, sub, err]
validateJWT(tokenString, secret, now) ==
    LET p == ParseWithClaims(tokenString, secret, now)
    IN  IF p.err # "" THEN [ok |-> FALSE, sub |-> "", err |-> "invalid token: " \o p.err]
        ELSE IF ~p.valid THEN [ok |-> FALSE, sub |-> "", err |-> "token is not valid"]
        ELSE IF p.sub = "" THEN [ok |-> FALSE, sub |-> "", err |-> "token missing sub claim"]
        ELSE [ok |-> TRUE, sub |-> p.sub, err |-> ""]

\* extractRawToken: the bearer token of the Authorization header, or ""
extractRawToken(auth) ==
    IF ~HasPrefix(auth, "Bearer ") THEN "" ELSE TrimPrefix(auth, "Bearer ")

\* extractTokenHash: the hash of the header with the "Bearer " prefix trimmed
extractTokenHash(auth) == hashToken(TrimPrefix(auth, "Bearer "))

----------------------------------------------------------------------------
(* The gateway: inputs. *)

\* Requests served concurrently.  Only pairHandler writes the state the
\* handlers share, so two requests can affect each other only when one of
\* them is a POST /pair: slot "a" serves any request, slot "b" a concurrent
\* POST /pair.
Reqs == {"a", "b"}
Serves(r, kind) == r = "a" \/ kind = "pair"

\* the slot's last request has been answered (or it has served none)
Free(r) == req[r].pc \in {"idle", "done"}

Idle == [kind |-> "idle", pc |-> "idle"]

\* X-Pairing-Code headers a client sends: none, every code the generator can
\* return, and a code that differs from "000007" only by its padding
PairCodes == generatePairingCode \cup {"", "7"}

\* JWTs signed with the secret: one valid before instant 9, one that expired
\* at instant 0
JwtGood == EncodeJWT([alg |-> "HS256", sub |-> "u1", exp |-> <<9>>, nbf |-> <<>>,
                      key |-> "s3cret"])
JwtExpired == EncodeJWT([alg |-> "HS256", sub |-> "u1", exp |-> <<0>>, nbf |-> <<>>,
                         key |-> "s3cret"])

\* Authorization headers a client sends: none, a non-Bearer value, a token of
\* an earlier process, the first token this process issues (a forged "pc_"
\* token until then), and the two JWTs
AuthHeaders ==
    {"", "Basic abc", "Bearer pc_00", "Bearer pc_01", "Bearer " \o JwtGood,
     "Bearer " \o JwtExpired}

\* request bodies of POST /webhook: content type, whether it parses, the
\* message field, the uploaded file names and the business_id field
Bodies ==
    {[ctype |-> "json", ok |-> FALSE, message |-> "", files |-> {}, business |-> ""],
     [ctype |-> "json", ok |-> TRUE, message |-> "", files |-> {}, business |-> ""],
     [ctype |-> "json", ok |-> TRUE, message |-> "hi", files |-> {}, business |-> "b1"],
     [ctype |-> "multipart", ok |-> FALSE, message |-> "", files |-> {}, business |-> ""],
     [ctype |-> "multipart", ok |-> TRUE, message |-> " ", files |-> {}, business |-> ""],
     [ctype |-> "multipart", ok |-> TRUE, message |-> "", files |-> {"receipt.jpg"},
      business |-> ""],
     [ctype |-> "multipart", ok |-> TRUE, message |-> "hi", files |-> {"receipt.jpg"},
      business |-> ""]}

----------------------------------------------------------------------------
(* The gateway: handlers.  A handler step is what the handler does between *)
(* two points where another goroutine can observe or change shared state:  *)
(* a critical section of s.mu, or one call to a collaborator.              *)

\* s.mu is free: no RegisterCheck holds it across its probe (every other
\* critical section of the Server is one step of this model)
Unlocked == probing = ""

\* GetPairingCode
GetPairingCode == IF pairingUsed THEN "" ELSE pairingCode

\* HasPairedClients answering from the used flag of the pairing code (faulty
\* variant)
HasPairedClientsUsed == pairingUsed

\* HasPairedClients
HasPairedClients == Cardinality(pairedTokens) > 0

\* isAuthorized with a bootstrap test that does not look at the credential
\* set (faulty variant: the bootstrap would never end)
isAuthorizedOpen(auth) ==
    IF ~requirePairing THEN "true"
    ELSE IF ~HasPrefix(auth, "Bearer ") THEN "false"
    ELSE "lookup"

\* isAuthorized testing the header before the bootstrap condition (faulty
\* variant: the bootstrap would admit Bearer headers only)
isAuthorizedHeaderFirst(auth) ==
    IF ~HasPrefix(auth, "Bearer ") THEN "false"
    ELSE IF ~requirePairing /\ Cardinality(pairedTokens) = 0 THEN "true"
    ELSE "lookup"

\* isAuthorized, first critical section and the header test after it:
\* "true", "false", or "lookup" when the second critical section decides
isAuthorizedCount(auth) ==
    IF ~requirePairing /\ Cardinality(pairedTokens) = 0 THEN "true"
    ELSE IF ~HasPrefix(auth, "Bearer ") THEN "false"
    ELSE "lookup"

\* isAuthorized, second critical section: s.pairedTokens[hash]
isAuthorizedLookup(auth) == hashToken(TrimPrefix(auth, "Bearer ")) \in pairedTokens

\* a legacy session key made of the token itself (faulty variant)
legacySessionKeyRaw(auth) == "api:" \o TrimPrefix(auth, "Bearer ")

\* the legacy session key of webhookHandler: "api:" + tokenHash[:8]
legacySessionKey(auth) == "api:" \o SubSeq(extractTokenHash(auth), 1, 8)

\* the JWT branch without the test of the "pc_" prefix (faulty variant)
jwtBranchAnyToken(auth) ==
    LET rawToken == extractRawToken(auth)
    IN  jwtSecret # "" /\ rawToken # ""

\* webhookHandler takes the JWT branch
jwtBranch(auth) ==
    LET rawToken == extractRawToken(auth)
    IN  jwtSecret # "" /\ rawToken # "" /\ ~HasPrefix(rawToken, "pc_")

\* the 401 reply and the admitted request, as webhookBeginFallback builds them
Refused(auth) ==
    [kind |-> "webhook", pc |-> "done", auth |-> auth, via |-> "legacy", status |-> 401]
Admitted(auth, key) ==
    [kind |-> "webhook", pc |-> "parse", auth |-> auth, via |-> "bootstrap",
     sessionKey |-> key]

\* webhookHandler falling back to isAuthorized when validateJWT fails (faulty
\* variant)
webhookBeginFallback(auth) ==
    LET claims == validateJWT(extractRawToken(auth), jwtSecret, clock)
    IN  IF jwtBranch(auth) /\ claims.ok
        THEN [kind |-> "webhook", pc |-> "parse", auth |-> auth, via |-> "jwt",
              sessionKey |-> "user:" \o claims.sub]
        ELSE CASE isAuthorizedCount(auth) = "true" ->
                    Admitted(auth, legacySessionKey(auth))
               [] isAuthorizedCount(auth) = "false" -> Refused(auth)
               [] OTHER -> [kind |-> "webhook", pc |-> "lookup", auth |-> auth]

\* webhookHandler going on to the body after a failed authorization (faulty
\* variant: the return after the 401 is missing)
UnauthorizedParsed(auth, via) ==
    [kind |-> "webhook", pc |-> "parse", auth |-> auth, via |-> via, sessionKey |-> ""]

\* the 401 reply of webhookHandler, with the branch that refused the request:
\* "jwt" (validateJWT) or "legacy" (isAuthorized)
Unauthorized(auth, via) ==
    [kind |-> "webhook", pc |-> "done", auth |-> auth, via |-> via, status |-> 401]

\* webhookHandler past the authorization, with what admitted the request
\* ("jwt": validateJWT; "token", "bootstrap": isAuthorized by the lookup or
\* by the count) and its session key
Authorized(auth, via, key) ==
    [kind |-> "webhook", pc |-> "parse", auth |-> auth, via |-> via, sessionKey |-> key]

\* webhookHandler: the request after the authorization decision, as far as
\* the end of isAuthorized's first critical section decides it
webhookBegin(auth) ==
    IF jwtBranch(auth)
    THEN LET claims == validateJWT(extractRawToken(auth), jwtSecret, clock)
         IN  IF ~claims.ok THEN Unauthorized(auth, "jwt")
             ELSE Authorized(auth, "jwt", "user:" \o claims.sub)
    ELSE CASE isAuthorizedCount(auth) = "true" ->
                Authorized(auth, "bootstrap", legacySessionKey(auth))
           [] isAuthorizedCount(auth) = "false" -> Unauthorized(auth, "legacy")
           [] OTHER -> [kind |-> "webhook", pc |-> "lookup", auth |-> auth]

\* pairHandler without the test of s.pairingUsed (faulty variant: a code
\* could be exchanged again)
pairStatusReusable(code) ==
    IF code = "" THEN 400
    ELSE IF code # pairingCode THEN 403
    ELSE 200

\* pairHandler consuming the code on a mismatch too (faulty variant)
pairUsedAfterAttempt(status) == status \in {200, 403} \/ pairingUsed

\* pairHandler comparing the code before testing s.pairingUsed (faulty
\* variant: a wrong code sent after the exchange gets 403)
pairStatusMismatchFirst(code) ==
    IF code = "" THEN 400
    ELSE IF code # pairingCode THEN 403
    ELSE IF pairingUsed THEN 410
    ELSE 200

\* pairHandler without the comparison of the code (faulty variant: any code
\* is exchanged while the current one is unused)
pairStatusAnyCode(code) ==
    IF code = "" THEN 400
    ELSE IF pairingUsed THEN 410
    ELSE 200

\* pairHandler clearing s.pairingUsed when the exchange fails (faulty variant)
pairUsedAfterReset(status) == status = 200

\* pairHandler: the status its checks lead to (200: the exchange goes ahead)
pairStatus(code) ==
    IF code = "" THEN 400
    ELSE IF pairingUsed THEN 410
    ELSE IF code # pairingCode THEN 403
    ELSE 200

\* pairHandler: s.pairingUsed when the critical section ends
pairUsedAfter(status) == IF status = 200 THEN TRUE ELSE pairingUsed

\* pairHandler up to s.mu.Unlock (and the reply, when nothing is persisted)
pairHandler(r, code) ==
    /\ code # "" => Unlocked
    /\ agentLoop /\ Serves(r, "pair")
    /\ Free(r)
    /\ LET status == pairStatus(code)
           t == generateBearerToken(issued + 1)
       IN  /\ pairingUsed' = pairUsedAfter(status)
           /\ IF status # 200
              THEN /\ req' = [req EXCEPT ![r] =
                            [kind |-> "pair", pc |-> "done", code |-> code,
                             token |-> "", status |-> status]]
                   /\ UNCHANGED <<pairedTokens, issued, exchanges>>
              ELSE /\ issued < MaxTokens
                   /\ pairedTokens' = pairedTokens \cup {t.hash}
                   /\ issued' = issued + 1
                   /\ exchanges' = exchanges + 1
                   /\ req' = [req EXCEPT ![r] =
                            [kind |-> "pair", code |-> code, token |-> t.token,
                             pc |-> IF configPath # "" THEN "persist" ELSE "done",
                             status |-> IF configPath # "" THEN 0 ELSE 200]]
    /\ UNCHANGED <<agentLoop, requirePairing, jwtSecret, configPath, pairingCode,
                   cfgTokens, clock, stateVars, jwtVars, probeVars>>

\* persistTokenHash: config.LoadConfig and the search for the hash
persistLoad(r) ==
    /\ req[r].kind = "pair" /\ req[r].pc = "persist"
    /\ \E loaded \in BOOLEAN :
         LET tokenHash == hashToken(req[r].token)
         IN  req' = [req EXCEPT ![r] =
                   IF ~loaded \/ \E i \in 1..Len(cfgTokens) : cfgTokens[i] = tokenHash
                   THEN [req[r] EXCEPT !.pc = "done", !.status = 200]
                   ELSE [kind |-> "pair", pc |-> "save", code |-> req[r].code,
                         token |-> req[r].token, status |-> 0,
                         cfg |-> Append(cfgTokens, tokenHash)]]
    /\ UNCHANGED <<agentLoop, requirePairing, jwtSecret, configPath, pairedTokens,
                   pairingCode, pairingUsed, cfgTokens, issued, exchanges,
                   clock, stateVars, jwtVars, probeVars>>

\* persistTokenHash: config.SaveConfig of the list loaded, then the reply
persistSave(r) ==
    /\ req[r].kind = "pair" /\ req[r].pc = "save"
    /\ \E saved \in BOOLEAN :
         cfgTokens' = IF saved THEN req[r].cfg ELSE cfgTokens
    /\ req' = [req EXCEPT ![r] =
                 [kind |-> "pair", pc |-> "done", code |-> req[r].code,
                  token |-> req[r].token, status |-> 200]]
    /\ UNCHANGED <<agentLoop, requirePairing, jwtSecret, configPath, pairedTokens,
                   pairingCode, pairingUsed, issued, exchanges, clock,
                   stateVars, jwtVars, probeVars>>

\* webhookHandler: the authorization decision up to the first point where
\* another goroutine can run (the end of isAuthorized's first critical section)
webhookAuth(r, auth) ==
    /\ ~jwtBranch(auth) => Unlocked
    /\ agentLoop /\ Serves(r, "webhook")
    /\ Free(r)
    /\ req' = [req EXCEPT ![r] = webhookBegin(auth)]
    /\ UNCHANGED <<agentLoop, requirePairing, jwtSecret, configPath, pairedTokens,
                   pairingCode, pairingUsed, cfgTokens, issued, exchanges,
                   clock, stateVars, jwtVars, probeVars>>

\* webhookHandler: isAuthorized's second critical section and the session key
webhookLookup(r) ==
    /\ Unlocked
    /\ req[r].kind = "webhook" /\ req[r].pc = "lookup"
    /\ req' = [req EXCEPT ![r] =
         IF isAuthorizedLookup(req[r].auth)
         THEN Authorized(req[r].auth, "token", legacySessionKey(req[r].auth))
         ELSE Unauthorized(req[r].auth, "legacy")]
    /\ UNCHANGED <<agentLoop, requirePairing, jwtSecret, configPath, pairedTokens,
                   pairingCode, pairingUsed, cfgTokens, issued, exchanges,
                   clock, stateVars, jwtVars, probeVars>>

\* utils.SaveUploadedFile: the workspace path of an upload
SaveUploadedFile(name) == "media/" \o name

\* webhookHandler: body parsing, saving the uploads (savedFiles are those
\* SaveUploadedFile stores; mediaPaths, their workspace paths, are the files
\* the request adds to the workspace), the empty-message test and the call of
\* ProcessDirectWithChannel
webhookParse(r, body, savedFiles) ==
    /\ req[r].kind = "webhook" /\ req[r].pc = "parse"
    /\ savedFiles \subseteq body.files
    /\ LET mediaPaths == {SaveUploadedFile(f) : f \in savedFiles}
           blank == TrimSpace(body.message) = ""
           reply(code) == [kind |-> "webhook", pc |-> "done", status |-> code]
       IN  IF ~body.ok
           THEN /\ savedFiles = {}
                /\ req' = [req EXCEPT ![r] = reply(400)]
           ELSE /\ req' = [req EXCEPT ![r] =
                     IF blank /\ mediaPaths = {} THEN reply(400)
                     ELSE [kind |-> "webhook", pc |-> "agent",
                           sessionKey |-> req[r].sessionKey,
                           message |-> IF blank THEN "Process the attached receipt"
                                       ELSE body.message,
                           mediaPaths |-> mediaPaths,
                           business |-> body.business,
                           ctx |-> "live"]]
    /\ UNCHANGED <<agentLoop, requirePairing, jwtSecret, configPath, pairedTokens,
                   pairingCode, pairingUsed, cfgTokens, issued, exchanges, clock,
                   stateVars, jwtVars, probeVars>>

\* what ends the context of a dispatched request: the 120 s timer of
\* context.WithTimeout, or the cancellation of r.Context() when the client
\* goes away
CtxCauses == {"deadline", "canceled"}

\* ctx.Err().Error()
ctxErr(ctx) ==
    IF ctx = "deadline" THEN "context deadline exceeded" ELSE "context canceled"

\* a context that nothing ends: no timer, and a client that stays connected
\* (faulty variant)
ctxDoneNever(r, cause) ==
    /\ req[r].kind = "webhook" /\ req[r].pc = "agent" /\ req[r].ctx = "live"
    /\ FALSE
    /\ UNCHANGED vars

\* the context of a dispatched request ends while ProcessDirectWithChannel
\* is in flight
ctxDone(r, cause) ==
    /\ req[r].kind = "webhook" /\ req[r].pc = "agent" /\ req[r].ctx = "live"
    /\ req' = [req EXCEPT ![r].ctx = cause]
    /\ UNCHANGED <<agentLoop, requirePairing, jwtSecret, configPath, pairedTokens,
                   pairingCode, pairingUsed, cfgTokens, issued, exchanges,
                   clock, stateVars, jwtVars, probeVars>>

\* outcomes of ProcessDirectWithChannel: a response, an error of its own, or
\* the error of its context once that has ended
AgentOutcomes == {"response", "error", "aborted"}

\* err.Error() of the outcome ("" when err is nil)
agentErr(outcome, ctx) ==
    CASE outcome = "response" -> ""
      [] outcome = "error" -> "agent: provider unavailable"
      [] OTHER -> ctxErr(ctx)

\* webhookHandler answering 200 whatever ProcessDirectWithChannel returns
\* (faulty variant)
webhookStatusOk(outcome) == 200

\* webhookHandler: the status of the reply after ProcessDirectWithChannel
webhookStatus(outcome) == IF outcome = "response" THEN 200 ELSE 500

\* webhookHandler: ProcessDirectWithChannel returns and the handler replies
\* (the processor returns the error of its context only once that has ended)
webhookReply(r, outcome) ==
    /\ req[r].kind = "webhook" /\ req[r].pc = "agent"
    /\ outcome = "aborted" => req[r].ctx # "live"
    /\ req' = [req EXCEPT ![r] =
                 [kind |-> "webhook", pc |-> "done",
                  status |-> webhookStatus(outcome),
                  error |-> agentErr(outcome, req[r].ctx)]]
    /\ UNCHANGED <<agentLoop, requirePairing, jwtSecret, configPath, pairedTokens,
                   pairingCode, pairingUsed, cfgTokens, issued, exchanges,
                   clock, stateVars, jwtVars, probeVars>>

\* json.NewEncoder(w).Encode(resp) of a StatusResponse of healthHandler:
\* the keys of the object written (Paired and Checks are omitempty, and a
\* false bool is empty)
StatusKeys(paired) == {"status", "uptime"} \cup (IF paired THEN {"paired"} ELSE {})

\* the reply of healthHandler
healthReply(auth, paired) ==
    [kind |-> "health", pc |-> "done", auth |-> auth, status |-> 200,
     paired |-> paired, keys |-> StatusKeys(paired)]

\* healthHandler up to the end of isAuthorized's first critical section
healthHandler(r, auth) ==
    /\ agentLoop => Unlocked
    /\ Serves(r, "health") /\ Free(r)
    /\ req' = [req EXCEPT ![r] =
         IF ~agentLoop
         THEN healthReply(auth, FALSE)
         ELSE CASE isAuthorizedCount(auth) = "true" -> healthReply(auth, TRUE)
                [] isAuthorizedCount(auth) = "false" ->
                     [kind |-> "health", pc |-> "has", auth |-> auth]
                [] OTHER -> [kind |-> "health", pc |-> "lookup", auth |-> auth]]
    /\ UNCHANGED <<agentLoop, requirePairing, jwtSecret, configPath, pairedTokens,
                   pairingCode, pairingUsed, cfgTokens, issued, exchanges,
                   clock, stateVars, jwtVars, probeVars>>

\* healthHandler: isAuthorized's second critical section
healthLookup(r) ==
    /\ Unlocked
    /\ req[r].kind = "health" /\ req[r].pc = "lookup"
    /\ req' = [req EXCEPT ![r] =
         IF isAuthorizedLookup(req[r].auth)
         THEN healthReply(req[r].auth, TRUE)
         ELSE [kind |-> "health", pc |-> "has", auth |-> req[r].auth]]
    /\ UNCHANGED <<agentLoop, requirePairing, jwtSecret, configPath, pairedTokens,
                   pairingCode, pairingUsed, cfgTokens, issued, exchanges,
                   clock, stateVars, jwtVars, probeVars>>

\* healthHandler: resp.Paired = s.HasPairedClients() and the reply
healthPaired(r) ==
    /\ Unlocked
    /\ req[r].kind = "health" /\ req[r].pc = "has"
    /\ req' = [req EXCEPT ![r] = healthReply(req[r].auth, HasPairedClients)]
    /\ UNCHANGED <<agentLoop, requirePairing, jwtSecret, configPath, pairedTokens,
                   pairingCode, pairingUsed, cfgTokens, issued, exchanges,
                   clock, stateVars, jwtVars, probeVars>>

\* healthHandler run without interruption: resp.Paired for a header, in the
\* current state
healthFlag(auth) ==
    /\ agentLoop
    /\ CASE isAuthorizedCount(auth) = "true" -> TRUE
         [] isAuthorizedCount(auth) = "false" -> HasPairedClients
         [] OTHER -> isAuthorizedLookup(auth) \/ HasPairedClients

\* s.server before ListenAndServe: phase "new"; "serving" while the listener
\* accepts connections; "draining" while a call of Shutdown(ctx) waits for
\* the connections to become idle; "stopped" once Shutdown has returned.
\* by is the call that started the listener, ctx the context of Shutdown.
NotStarted == [phase |-> "new", by |-> "", ctx |-> ""]

\* a request is being served (its connection is not idle)
InFlight == \E r \in Reqs : ~Free(r)

\* the listener accepts new connections
Listening == run.phase = "serving"

\* Start and StartContext up to ListenAndServe: s.ready = true under the
\* lock, then the listener runs (in Start on the caller's goroutine, in
\* StartContext on one of its own)
Start(by) ==
    /\ Unlocked
    /\ run.phase = "new"
    /\ ready' = TRUE
    /\ run' = [phase |-> "serving", by |-> by, ctx |-> ""]
    /\ UNCHANGED <<agentLoop, requirePairing, jwtSecret, configPath, pairedTokens,
                   pairingCode, pairingUsed, cfgTokens, issued, req, exchanges,
                   checks, probing, clock, stateVars, jwtVars>>

\* the contexts a caller passes to Stop: one that never ends and one with a
\* deadline
StopContexts == {"background", "deadline"}

\* the context StartContext passes to Shutdown when ctx.Done() fires:
\* context.Background()
shutdownContext == "background"

\* StartContext: <-ctx.Done() is taken and s.server.Shutdown is called; the
\* listener is closed at once, s.ready is left as it was
StartContextDone ==
    /\ run.phase = "serving" /\ run.by = "StartContext"
    /\ run' = [run EXCEPT !.phase = "draining", !.ctx = shutdownContext]
    /\ UNCHANGED <<agentLoop, requirePairing, jwtSecret, configPath, pairedTokens,
                   pairingCode, pairingUsed, cfgTokens, issued, req, exchanges,
                   ready, checks, probing, clock, stateVars, jwtVars>>

\* Stop(ctx) up to the call of s.server.Shutdown(ctx): s.ready = false under
\* the lock
Stop(ctx) ==
    /\ Unlocked
    /\ run.phase = "serving"
    /\ ready' = FALSE
    /\ run' = [run EXCEPT !.phase = "draining", !.ctx = ctx]
    /\ UNCHANGED <<agentLoop, requirePairing, jwtSecret, configPath, pairedTokens,
                   pairingCode, pairingUsed, cfgTokens, issued, req, exchanges,
                   checks, probing, clock, stateVars, jwtVars>>

\* http.Server.Shutdown returns: every connection is idle, or its context
\* is done (a context with a deadline ends; context.Background() never does)
ShutdownReturns ==
    /\ run.phase = "draining"
    /\ ~InFlight \/ run.ctx = "deadline"
    /\ run' = [run EXCEPT !.phase = "stopped"]
    /\ UNCHANGED <<agentLoop, requirePairing, jwtSecret, configPath, pairedTokens,
                   pairingCode, pairingUsed, cfgTokens, issued, req, exchanges,
                   ready, checks, probing, clock, stateVars, jwtVars>>

\* names under which checks are registered
CheckNames == {"db"}

\* make(map[string]Check)
NoChecks == [n \in {} |-> "ok"]

\* statusString
statusString(ok) == IF ok THEN "ok" ELSE "fail"

\* SetReady
SetReady(b) ==
    /\ Unlocked
    /\ ready' = b
    /\ UNCHANGED <<agentLoop, requirePairing, jwtSecret, configPath, pairedTokens,
                   pairingCode, pairingUsed, cfgTokens, issued, req, exchanges,
                   checks, probing, run, clock, stateVars, jwtVars>>

\* the entry RegisterCheck stores for a probe that returned ok, kept only if
\* the name has none yet (faulty variant)
storeCheckOnce(name, ok) ==
    [n \in DOMAIN checks \cup {name} |->
       IF n \in DOMAIN checks THEN checks[n] ELSE statusString(ok)]

\* s.checks[name] = Check{...}: the map after RegisterCheck has stored the
\* result of a probe that returned ok
storeCheck(name, ok) ==
    [n \in DOMAIN checks \cup {name} |->
       IF n = name THEN statusString(ok) ELSE checks[n]]

\* RegisterCheck, the call as a whole: checkFn runs once, under the lock,
\* and its result replaces the entry of that name (the message and the
\* timestamp are not modelled)
RegisterCheck(name, ok) ==
    /\ Unlocked
    /\ checks' = storeCheck(name, ok)
    /\ UNCHANGED <<agentLoop, requirePairing, jwtSecret, configPath, pairedTokens,
                   pairingCode, pairingUsed, cfgTokens, issued, req, exchanges,
                   ready, probing, run, clock, stateVars, jwtVars>>

\* RegisterCheck in two steps, for a probe that takes time.  First step:
\* s.mu.Lock and the call of checkFn, which runs with the lock held
RegisterCheckLock(name) ==
    /\ Unlocked
    /\ probing' = name
    /\ UNCHANGED <<agentLoop, requirePairing, jwtSecret, configPath, pairedTokens,
                   pairingCode, pairingUsed, cfgTokens, issued, req, exchanges,
                   ready, checks, run, clock, stateVars, jwtVars>>

\* second step: checkFn returns ok, the result is stored and the deferred
\* Unlock runs
RegisterCheckStore(ok) ==
    /\ ~Unlocked
    /\ checks' = storeCheck(probing, ok)
    /\ probing' = ""
    /\ UNCHANGED <<agentLoop, requirePairing, jwtSecret, configPath, pairedTokens,
                   pairingCode, pairingUsed, cfgTokens, issued, req, exchanges,
                   ready, run, clock, stateVars, jwtVars>>

\* readyHandler: the critical section, which copies s.ready and the entries
\* of s.checks into locals (no reply yet: status 0)
readyHandler(r) ==
    /\ Unlocked
    /\ Serves(r, "ready") /\ Free(r)
    /\ req' = [req EXCEPT ![r] =
                 [kind |-> "ready", pc |-> "reply", status |-> 0,
                  ready |-> ready, checks |-> checks]]
    /\ UNCHANGED <<agentLoop, requirePairing, jwtSecret, configPath, pairedTokens,
                   pairingCode, pairingUsed, cfgTokens, issued, exchanges,
                   clock, stateVars, jwtVars, probeVars>>

\* readyHandler: the status the locals lead to
readyStatus(isReady, checkMap) ==
    IF ~isReady THEN 503
    ELSE IF \E n \in DOMAIN checkMap : checkMap[n] = "fail" THEN 503
    ELSE 200

\* readyHandler replying from s.ready and s.checks as they are when the
\* reply is written (faulty variant: no copy)
readyReplyLive(r) ==
    /\ req[r].kind = "ready" /\ req[r].pc = "reply"
    /\ req' = [req EXCEPT ![r] =
                 [kind |-> "ready", pc |-> "done",
                  status |-> readyStatus(ready, checks),
                  body |-> IF readyStatus(ready, checks) = 200 THEN "ready"
                           ELSE "not ready",
                  checks |-> checks]]
    /\ UNCHANGED <<agentLoop, requirePairing, jwtSecret, configPath, pairedTokens,
                   pairingCode, pairingUsed, cfgTokens, issued, exchanges,
                   clock, stateVars, jwtVars, probeVars>>

\* readyHandler: the reply, made from the locals
readyReply(r) ==
    /\ req[r].kind = "ready" /\ req[r].pc = "reply"
    /\ req' = [req EXCEPT ![r] =
                 [kind |-> "ready", pc |-> "done",
                  status |-> readyStatus(req[r].ready, req[r].checks),
                  body |-> IF readyStatus(req[r].ready, req[r].checks) = 200
                           THEN "ready" ELSE "not ready",
                  checks |-> req[r].checks]]
    /\ UNCHANGED <<agentLoop, requirePairing, jwtSecret, configPath, pairedTokens,
                   pairingCode, pairingUsed, cfgTokens, issued, exchanges,
                   clock, stateVars, jwtVars, probeVars>>

\* GenerateNewPairingCode without the reset of s.pairingUsed (faulty variant)
GenerateNewPairingCodeOnly ==
    /\ Unlocked
    /\ \E c \in generatePairingCode : pairingCode' = c
    /\ exchanges' = 0
    /\ UNCHANGED <<agentLoop, requirePairing, jwtSecret, configPath, pairedTokens,
                   pairingUsed, cfgTokens, issued, req, clock, stateVars, jwtVars, probeVars>>

\* GenerateNewPairingCode
GenerateNewPairingCode ==
    /\ Unlocked
    /\ \E c \in generatePairingCode : pairingCode' = c
    /\ pairingUsed' = FALSE
    /\ exchanges' = 0
    /\ UNCHANGED <<agentLoop, requirePairing, jwtSecret, configPath, pairedTokens,
                   cfgTokens, issued, req, clock, stateVars, jwtVars, probeVars>>

\* ResetPairingCode dropping the credentials paired so far (faulty variant)
ResetPairingCodeRevoking ==
    /\ Unlocked
    /\ pairingUsed
    /\ \E c \in generatePairingCode : pairingCode' = c
    /\ pairingUsed' = FALSE
    /\ exchanges' = 0
    /\ pairedTokens' = {}
    /\ UNCHANGED <<agentLoop, requirePairing, jwtSecret, configPath, cfgTokens,
                   issued, req, clock, stateVars, jwtVars, probeVars>>

\* ResetPairingCode (a call with the code unused returns at once)
ResetPairingCode ==
    /\ Unlocked
    /\ pairingUsed
    /\ \E c \in generatePairingCode : pairingCode' = c
    /\ pairingUsed' = FALSE
    /\ exchanges' = 0
    /\ UNCHANGED <<agentLoop, requirePairing, jwtSecret, configPath, pairedTokens,
                   cfgTokens, issued, req, clock, stateVars, jwtVars, probeVars>>

----------------------------------------------------------------------------
(* The state manager: data. *)

Managers == {"m1", "m2"}

\* the zero value of State (the zero time.Time is instant 0)
ZeroState ==
    [LastChannel |-> "", LastChatID |-> "", ActiveAuth |-> <<>>, Timestamp |-> 0]

NoFile == [form |-> "absent"]

\* a file holding the complete JSON text of doc
JsonFile(doc) == [form |-> "json", doc |-> doc]

\* a file holding a proper prefix of a JSON text (possibly nothing): what
\* os.WriteFile leaves between creating the file and closing it; also a file
\* in which the bytes of two writers are mixed.  Not valid JSON
PartialFile == [form |-> "partial"]

\* a file holding JSON text in which the fields of doc have the types of
\* State and some other field has a value of the wrong type
BadTypeFile(doc) == [form |-> "badtype", doc |-> doc]

\* the keys of a State whose LastChatID field is not exported to JSON (faulty
\* variant)
JsonKeysNoChatID(st) ==
    {"timestamp"}
    \cup (IF st.LastChannel # "" THEN {"last_channel"} ELSE {})
    \cup (IF DOMAIN st.ActiveAuth # {} THEN {"active_auth"} ELSE {})

\* the keys json.MarshalIndent emits for a State: omitempty drops an empty
\* string and an empty map, and the timestamp is always written
JsonKeys(st) ==
    {"timestamp"}
    \cup (IF st.LastChannel # "" THEN {"last_channel"} ELSE {})
    \cup (IF st.LastChatID # "" THEN {"last_chat_id"} ELSE {})
    \cup (IF DOMAIN st.ActiveAuth # {} THEN {"active_auth"} ELSE {})

\* the JSON object of an AuthEntry whose UpdatedAt is not written (faulty
\* variant: the field reads back as the zero time)
MarshalEntryNoTime(e) ==
    [jwt_token |-> e.JWTToken, channel |-> e.Channel, chat_id |-> e.ChatID,
     updated_at |-> 0]

\* the JSON object of an AuthEntry
MarshalEntry(e) ==
    [jwt_token |-> e.JWTToken, channel |-> e.Channel, chat_id |-> e.ChatID,
     updated_at |-> e.UpdatedAt]

UnmarshalEntry(o) ==
    [JWTToken |-> o.jwt_token, Channel |-> o.channel, ChatID |-> o.chat_id,
     UpdatedAt |-> o.updated_at]

\* json.MarshalIndent(sm.state): the JSON object, key -> value
Marshal(st) ==
    [k \in JsonKeys(st) |->
        CASE k = "timestamp" -> st.Timestamp
          [] k = "last_channel" -> st.LastChannel
          [] k = "last_chat_id" -> st.LastChatID
          [] k = "active_auth" ->
               [b \in DOMAIN st.ActiveAuth |-> MarshalEntry(st.ActiveAuth[b])]]

\* the State after json.Unmarshal has stored the fields of doc into st:
\* a key that is absent leaves its field as it was
Decode(doc, st) ==
    [LastChannel |-> IF "last_channel" \in DOMAIN doc THEN doc.last_channel
                     ELSE st.LastChannel,
     LastChatID |-> IF "last_chat_id" \in DOMAIN doc THEN doc.last_chat_id
                    ELSE st.LastChatID,
     ActiveAuth |-> IF "active_auth" \in DOMAIN doc
                    THEN [b \in DOMAIN doc.active_auth \cup DOMAIN st.ActiveAuth |->
                            IF b \in DOMAIN doc.active_auth
                            THEN UnmarshalEntry(doc.active_auth[b])
                            ELSE st.ActiveAuth[b]]
                    ELSE st.ActiveAuth,
     Timestamp |-> IF "timestamp" \in DOMAIN doc THEN doc.timestamp ELSE st.Timestamp]

\* json.Unmarshal(data, st) on the content of a file: [ok, state].  Text that
\* is not valid JSON is refused before anything is stored; a value of the
\* wrong type is reported after the other fields have been stored.
Unmarshal(file, st) ==
    CASE file.form = "json" -> [ok |-> TRUE, state |-> Decode(file.doc, st)]
      [] file.form = "badtype" -> [ok |-> FALSE, state |-> Decode(file.doc, st)]
      [] OTHER -> [ok |-> FALSE, state |-> st]

\* arguments of the setters
Channels == {"telegram", "api"}
ChatIDs == {"chat1"}

\* the map a caller holds after GetActiveAuth: none yet, a map of its own
\* (copy) with the contents in map, or the map of manager of itself (live)
NoResult == [ref |-> "none", of |-> "", map |-> <<>>]

\* what a caller writes into a map it was handed
CallerEntries ==
    {[JWTToken |-> "forged", Channel |-> "api", ChatID |-> "chat9", UpdatedAt |-> 0]}
Tenants == {"b1", "b2"}

BusinessAuths ==
    {[business |-> "b1", token |-> "jwt1", channel |-> "telegram", chatID |-> "chat1"],
     [business |-> "b1", token |-> "jwt2", channel |-> "api", chatID |-> "chat2"],
     [business |-> "b2", token |-> "jwt1", channel |-> "telegram", chatID |-> "chat1"]}

\* a legacy state.json a workspace can hold when the first manager starts
LegacyDoc == [last_channel |-> "telegram", timestamp |-> 1]
LegacyFiles ==
    {NoFile, JsonFile(LegacyDoc), PartialFile, BadTypeFile(LegacyDoc)}

Idling == [pc |-> "idle"]
NoFailure == [op |-> "none"]

----------------------------------------------------------------------------
(* The state manager: operations.  A setter holds sm.mu from its first     *)
(* statement to its return, so a manager runs one call at a time; the      *)
(* steps of saveAtomic are separate so that an I/O failure or a crash of   *)
(* the process can fall between any two of them.                           *)

Live(m) == Len(mem[m]) = 1 /\ call[m] = Idling

\* the goroutines that call a manager: each manager's own caller, which
\* constructs it and calls it under the manager's name, and a second
\* goroutine g2 that shares manager m1 with the first
Callers == Managers \cup {"g2"}
Of(c) == IF c = "g2" THEN "m1" ELSE c

\* caller c can call a method of its manager: NewManager has returned it,
\* and c is in no call
Callable(c) ==
    /\ Len(mem[Of(c)]) = 1
    /\ call[c] = Idling
    /\ IF call[Of(c)] = Idling THEN TRUE ELSE call[Of(c)].op # "NewManager"

\* a setter that does not wait for sm.mu (faulty variant)
LockedNever(m) == FALSE

\* sm.mu of manager m is held, so that sm.mu.Lock() waits
Locked(m) == mu[m]

\* an I/O operation succeeds (ok) or fails
IO(ok) ==
    /\ ok \/ faults < MaxFaults
    /\ faults' = IF ok THEN faults ELSE faults + 1

\* time.Now: the instants a reading can return when the last reading
\* returned t (clock holds the last reading)
Now(t) == {u \in {t, t + 1} : u <= MaxClock}

\* the locals of a call that is about to run saveAtomic on state st; prev
\* records the state file at that point (history)
Saving(op, arg, st) ==
    [pc |-> "write", op |-> op, arg |-> arg, data |-> Marshal(st), err |-> FALSE,
     prev |-> disk.state, fd |-> "none"]

\* The descriptor os.WriteFile holds between its open and its close names a
\* file, not a path: fd is where that file is now, at the temp path ("tmp"),
\* at the state path after another caller renamed it ("state"), or nowhere
\* ("gone").  The records of all callers after caller m has renamed the
\* temp file over the state file, and after it has removed the temp file:
Renamed(m, c, mine) ==
    IF c = m THEN mine
    ELSE IF call[c].pc = "writing"
    THEN [call[c] EXCEPT !.fd = IF call[c].fd = "tmp" THEN "state" ELSE "gone"]
    ELSE call[c]
Removed(m, c, mine) ==
    IF c = m THEN mine
    ELSE IF call[c].pc = "writing" /\ call[c].fd = "tmp"
    THEN [call[c] EXCEPT !.fd = "gone"]
    ELSE call[c]

\* the contents a file that held old can have after caller m has written
\* its data from offset 0 and closed it: m's data when the file was empty
\* and nobody else is writing it, and otherwise possibly a mix
Written(m, old) ==
    IF old = PartialFile
       /\ \A c \in Callers \ {m} : call[c].pc = "writing" => call[c].fd # call[m].fd
    THEN {JsonFile(call[m].data)}
    ELSE {JsonFile(call[m].data), PartialFile}

\* SetLastChannel up to the call of saveAtomic
SetLastChannel(m, channel) ==
    /\ Callable(m) /\ ~Locked(Of(m))
    /\ \E now \in Now(clock) :
         LET st == [mem[Of(m)][1] EXCEPT !.LastChannel = channel, !.Timestamp = now]
         IN  /\ mem' = [mem EXCEPT ![Of(m)] = <<st>>]
             /\ call' = [call EXCEPT ![m] = Saving("SetLastChannel", channel, st)]
             /\ clock' = now
    /\ mu' = [mu EXCEPT ![Of(m)] = TRUE]
    /\ UNCHANGED <<disk, faults, failed, persisted, got, gatewayVars, jwtVars>>

\* SetLastChatID up to the call of saveAtomic
SetLastChatID(m, chatID) ==
    /\ Callable(m) /\ ~Locked(Of(m))
    /\ \E now \in Now(clock) :
         LET st == [mem[Of(m)][1] EXCEPT !.LastChatID = chatID, !.Timestamp = now]
         IN  /\ mem' = [mem EXCEPT ![Of(m)] = <<st>>]
             /\ call' = [call EXCEPT ![m] = Saving("SetLastChatID", chatID, st)]
             /\ clock' = now
    /\ mu' = [mu EXCEPT ![Of(m)] = TRUE]
    /\ UNCHANGED <<disk, faults, failed, persisted, got, gatewayVars, jwtVars>>

\* the map with key b set to entry e unless b has an entry already (faulty
\* variant: the first writer wins)
MapSetAbsent(f, b, e) ==
    [x \in DOMAIN f \cup {b} |-> IF x \in DOMAIN f THEN f[x] ELSE e]

\* a map holding entry e under b and nothing else (faulty variant: the
\* other tenants are dropped)
MapSetOnly(f, b, e) == [x \in {b} |-> e]

\* the map with key b set to entry e (a nil map is made first)
MapSet(f, b, e) == [x \in DOMAIN f \cup {b} |-> IF x = b THEN e ELSE f[x]]

\* SetBusinessAuth up to the call of saveAtomic; the entry's UpdatedAt and the
\* state's Timestamp are two readings of the clock
SetBusinessAuth(m, a) ==
    /\ Callable(m) /\ ~Locked(Of(m))
    /\ \E now1 \in Now(clock) : \E now2 \in Now(now1) :
         LET entry == [JWTToken |-> a.token, Channel |-> a.channel,
                       ChatID |-> a.chatID, UpdatedAt |-> now1]
             st == [mem[Of(m)][1] EXCEPT
                      !.ActiveAuth = MapSet(mem[Of(m)][1].ActiveAuth, a.business, entry),
                      !.Timestamp = now2]
         IN  /\ mem' = [mem EXCEPT ![Of(m)] = <<st>>]
             /\ call' = [call EXCEPT ![m] = Saving("SetBusinessAuth", a, st)]
             /\ clock' = now2
    /\ mu' = [mu EXCEPT ![Of(m)] = TRUE]
    /\ UNCHANGED <<disk, faults, failed, persisted, got, gatewayVars, jwtVars>>

\* the call's saveAtomic has returned: ok or an error
Returning(c, err) == [c EXCEPT !.pc = "ret", !.err = err]

\* saveAtomic writing the state file in place (faulty variant: os.WriteFile
\* truncates sm.stateFile itself)
saveOpenInPlace(m) ==
    /\ call[m].pc = "write"
    /\ \E opened \in BOOLEAN :
         /\ IO(opened)
         /\ IF opened
            THEN /\ disk' = [disk EXCEPT !.state = [form |-> "partial"],
                                         !.tmp = [form |-> "partial"]]
                 /\ call' = [call EXCEPT ![m].pc = "writing", ![m].fd = "tmp"]
            ELSE /\ call' = [call EXCEPT ![m] = Returning(call[m], TRUE)]
                 /\ UNCHANGED disk
    /\ UNCHANGED <<mem, mu, failed, persisted, clock, got, gatewayVars, jwtVars>>

\* saveAtomic ignoring the error of os.WriteFile (faulty variant: a temp
\* file cut short is renamed)
saveWriteUnchecked(m) ==
    /\ call[m].pc = "writing"
    /\ \E written \in BOOLEAN :
         /\ IO(written)
         /\ disk' = IF written THEN [disk EXCEPT !.tmp = JsonFile(call[m].data)]
                    ELSE disk
         /\ call' = [call EXCEPT ![m].pc = "rename"]
    /\ UNCHANGED <<mem, mu, failed, persisted, clock, got, gatewayVars, jwtVars>>

\* saveAtomic: os.WriteFile creates or truncates the temp file
saveOpen(m) ==
    /\ call[m].pc = "write"
    /\ \E opened \in BOOLEAN :
         /\ IO(opened)
         /\ IF opened
            THEN /\ disk' = [disk EXCEPT !.tmp = PartialFile]
                 /\ call' = [call EXCEPT ![m].pc = "writing", ![m].fd = "tmp"]
            ELSE /\ call' = [call EXCEPT ![m] = Returning(call[m], TRUE)]
                 /\ UNCHANGED disk
    /\ UNCHANGED <<mem, mu, failed, persisted, clock, got, gatewayVars, jwtVars>>

\* saveAtomic: os.WriteFile writes the data and closes the file it opened
\* (the temp file, unless another caller has moved or removed it since)
saveWrite(m) ==
    /\ call[m].pc = "writing"
    /\ \E written \in BOOLEAN :
         /\ IO(written)
         /\ IF written
            THEN /\ IF call[m].fd = "tmp"
                    THEN \E f \in Written(m, disk.tmp) : disk' = [disk EXCEPT !.tmp = f]
                    ELSE IF call[m].fd = "state"
                    THEN \E f \in Written(m, disk.state) : disk' = [disk EXCEPT !.state = f]
                    ELSE UNCHANGED disk
                 /\ call' = [call EXCEPT ![m].pc = "rename"]
            ELSE /\ call' = [call EXCEPT ![m] = Returning(call[m], TRUE)]
                 /\ UNCHANGED disk
    /\ UNCHANGED <<mem, mu, failed, persisted, clock, got, gatewayVars, jwtVars>>

\* saveAtomic: os.Rename(tempFile, sm.stateFile); it fails when there is no
\* temp file (another caller has renamed or removed it)
saveRename(m) ==
    /\ call[m].pc = "rename"
    /\ \E renamed \in BOOLEAN :
         /\ renamed => disk.tmp # NoFile
         /\ IF disk.tmp = NoFile THEN faults' = faults ELSE IO(renamed)
         /\ IF renamed
            THEN /\ disk' = [disk EXCEPT !.state = disk.tmp, !.tmp = NoFile]
                 /\ call' = [c \in Callers |->
                               Renamed(m, c, Returning(call[m], FALSE))]
            ELSE /\ call' = [call EXCEPT ![m].pc = "cleanup"]
                 /\ UNCHANGED disk
    /\ UNCHANGED <<mem, mu, failed, persisted, clock, got, gatewayVars, jwtVars>>

\* saveAtomic returning nil after a failed rename (faulty variant)
saveCleanupSilent(m) ==
    /\ call[m].pc = "cleanup"
    /\ disk' = [disk EXCEPT !.tmp = NoFile]
    /\ call' = [call EXCEPT ![m] = Returning(call[m], FALSE)]
    /\ UNCHANGED <<mem, mu, faults, failed, persisted, clock, got, gatewayVars, jwtVars>>

\* saveAtomic: os.Remove(tempFile) after a failed rename.  The result of
\* os.Remove is dropped: the temp file is gone, or (what made the rename
\* fail makes the removal fail) it is still there; either way saveAtomic
\* returns the error of the rename
saveCleanup(m) ==
    /\ call[m].pc = "cleanup"
    /\ \E removed \in BOOLEAN :
         IF removed
         THEN /\ disk' = [disk EXCEPT !.tmp = NoFile]
              /\ call' = [c \in Callers |-> Removed(m, c, Returning(call[m], TRUE))]
         ELSE /\ UNCHANGED disk
              /\ call' = [call EXCEPT ![m] = Returning(call[m], TRUE)]
    /\ UNCHANGED <<mem, mu, faults, failed, persisted, clock, got, gatewayVars, jwtVars>>

\* the call returns: a setter releases sm.mu (deferred Unlock) and hands the
\* error to its caller; NewManager ignores the result of its save
Return(m) ==
    /\ call[m].pc = "ret"
    /\ call' = [call EXCEPT ![m] = Idling]
    /\ mu' = [mu EXCEPT ![Of(m)] = FALSE]
    /\ failed' = [failed EXCEPT ![Of(m)] =
                    IF call[m].op = "NewManager" THEN failed[Of(m)]
                    ELSE IF call[m].err THEN [op |-> call[m].op, arg |-> call[m].arg]
                    ELSE NoFailure]
    /\ persisted' = [persisted EXCEPT ![Of(m)] = ~call[m].err]
    /\ UNCHANGED <<mem, disk, faults, clock, got, gatewayVars, jwtVars>>

\* load that stores nothing of what it reads (faulty variant)
loadNothing(readable) == ZeroState

\* load: the state read from the state file; a file that cannot be read or
\* parsed leaves what Unmarshal stored
load(readable) ==
    IF readable THEN Unmarshal(disk.state, ZeroState).state ELSE ZeroState

\* NewManager(workspace) up to the first I/O of the migration's saveAtomic
NewManager(m) ==
    /\ mem[m] = <<>>
    /\ \E readable \in BOOLEAN :
         /\ ~readable => disk.state # NoFile \/ disk.legacy # NoFile
         /\ IO(readable)
         /\ IF disk.state = NoFile
            THEN LET u == Unmarshal(disk.legacy, ZeroState)
                 IN  IF readable /\ disk.legacy # NoFile
                     THEN /\ mem' = [mem EXCEPT ![m] = <<u.state>>]
                          /\ call' = [call EXCEPT ![m] =
                                        IF u.ok THEN Saving("NewManager", "", u.state)
                                        ELSE Idling]
                     ELSE /\ mem' = [mem EXCEPT ![m] = <<ZeroState>>]
                          /\ UNCHANGED call
            ELSE /\ mem' = [mem EXCEPT ![m] = <<load(readable)>>]
                 /\ UNCHANGED call
    /\ persisted' = [persisted EXCEPT ![m] = FALSE]
    /\ UNCHANGED <<mu, disk, failed, clock, got, gatewayVars, jwtVars>>

\* the process dies: memory is lost, the files stay as they are
Crash ==
    /\ \E m \in Managers : mem[m] # <<>>
    /\ mem' = [m \in Managers |-> <<>>]
    /\ mu' = [m \in Managers |-> FALSE]
    /\ call' = [c \in Callers |-> Idling]
    /\ failed' = [m \in Managers |-> NoFailure]
    /\ persisted' = [m \in Managers |-> FALSE]
    /\ got' = NoResult
    /\ UNCHANGED <<disk, faults, clock, gatewayVars, jwtVars>>

----------------------------------------------------------------------------
(* Idle values of the parts a specification does not exercise. *)

GatewayIdle ==
    /\ agentLoop = FALSE /\ requirePairing = FALSE
    /\ jwtSecret = "" /\ configPath = ""
    /\ pairedTokens = {} /\ pairingCode = "" /\ pairingUsed = FALSE
    /\ cfgTokens = <<>> /\ issued = 0
    /\ req = [r \in Reqs |-> Idle]
    /\ exchanges = 0
    /\ ready = FALSE /\ checks = NoChecks /\ probing = "" /\ run = NotStarted

\* GetActiveAuth returning sm.state.ActiveAuth itself (faulty variant)
GetActiveAuthLive(m) == [ref |-> "live", of |-> m, map |-> <<>>]

\* GetActiveAuth: the result is a new map holding every entry of
\* sm.state.ActiveAuth; an AuthEntry is a struct of values, so nothing of
\* the result is shared with the manager
GetActiveAuth(m) ==
    [ref |-> "copy", of |-> m,
     map |-> [k \in DOMAIN mem[m][1].ActiveAuth |-> mem[m][1].ActiveAuth[k]]]

\* a caller calls GetActiveAuth on a constructed manager; RLock waits for
\* the setter that holds sm.mu
CallGetActiveAuth(m) ==
    /\ Live(m) /\ ~mu[m]
    /\ got' = GetActiveAuth(m)
    /\ UNCHANGED <<mem, mu, call, disk, faults, failed, persisted, clock,
                   gatewayVars, jwtVars>>

\* the contents of the map the caller holds
Returned == IF got.ref = "live" THEN mem[got.of][1].ActiveAuth ELSE got.map

\* the map without key b
MapDelete(f, b) == [x \in DOMAIN f \ {b} |-> f[x]]

\* the caller stores e under b in the map it holds: result[b] = e
StoreReturned(b, e) ==
    /\ got.ref # "none"
    /\ Returned # MapSet(Returned, b, e)
    /\ IF got.ref = "copy"
       THEN /\ got' = [got EXCEPT !.map = MapSet(got.map, b, e)]
            /\ UNCHANGED mem
       ELSE /\ mem' = [mem EXCEPT ![got.of] =
                         <<[mem[got.of][1] EXCEPT
                              !.ActiveAuth = MapSet(mem[got.of][1].ActiveAuth, b, e)]>>]
            /\ UNCHANGED got
    /\ UNCHANGED <<mu, call, disk, faults, failed, persisted, clock,
                   gatewayVars, jwtVars>>

\* the caller deletes b from the map it holds: delete(result, b)
DeleteReturned(b) ==
    /\ got.ref # "none"
    /\ b \in DOMAIN Returned
    /\ IF got.ref = "copy"
       THEN /\ got' = [got EXCEPT !.map = MapDelete(got.map, b)]
            /\ UNCHANGED mem
       ELSE /\ mem' = [mem EXCEPT ![got.of] =
                         <<[mem[got.of][1] EXCEPT
                              !.ActiveAuth = MapDelete(mem[got.of][1].ActiveAuth, b)]>>]
            /\ UNCHANGED got
    /\ UNCHANGED <<mu, call, disk, faults, failed, persisted, clock,
                   gatewayVars, jwtVars>>


StateIdle ==
    /\ mem = [m \in Managers |-> <<>>]
    /\ mu = [m \in Managers |-> FALSE]
    /\ call = [c \in Callers |-> Idling]
    /\ failed = [m \in Managers |-> NoFailure]
    /\ persisted = [m \in Managers |-> FALSE]
    /\ got = NoResult
    /\ disk = [state |-> NoFile, tmp |-> NoFile, legacy |-> NoFile]
    /\ faults = 0

NotValidated == [done |-> FALSE, ok |-> FALSE, sub |-> "", err |-> ""]

JwtIdle == jwtIn = [wf |-> FALSE, str |-> ""] /\ jwtOut = NotValidated

----------------------------------------------------------------------------
(* The gateway specification. *)

\* token hashes a configuration file hands to WithPairing
InitialHashes == {<<>>, <<hashToken("pc_00")>>}

\* NewServer with its options applied
NewServer ==
    /\ agentLoop \in BOOLEAN
    /\ requirePairing \in BOOLEAN
    /\ jwtSecret \in {"", "s3cret"}
    /\ configPath \in {"", "config.json"}
    /\ cfgTokens \in (IF configPath = "" THEN {<<>>} ELSE InitialHashes)
    /\ pairedTokens = {cfgTokens[i] : i \in 1..Len(cfgTokens)}
    /\ pairingCode \in (IF agentLoop THEN generatePairingCode ELSE {""})
    /\ pairingUsed = FALSE
    /\ issued = 0
    /\ req = [r \in Reqs |-> Idle]
    /\ exchanges = 0
    /\ ready = FALSE /\ checks = NoChecks /\ probing = "" /\ run = NotStarted

Init == NewServer /\ clock = 0 /\ StateIdle /\ JwtIdle

Next ==
    \/ \E r \in Reqs, code \in PairCodes : pairHandler(r, code)
    \/ \E r \in Reqs : persistLoad(r)
    \/ \E r \in Reqs : persistSave(r)
    \/ \E r \in Reqs, auth \in AuthHeaders : webhookAuth(r, auth)
    \/ \E r \in Reqs : webhookLookup(r)
    \/ \E r \in Reqs, body \in Bodies, saved \in SUBSET {"receipt.jpg"} :
          webhookParse(r, body, saved)
    \/ \E r \in Reqs, outcome \in AgentOutcomes : webhookReply(r, outcome)
    \/ \E r \in Reqs, auth \in AuthHeaders : healthHandler(r, auth)
    \/ \E r \in Reqs : healthLookup(r)
    \/ \E r \in Reqs : healthPaired(r)
    \/ GenerateNewPairingCode
    \/ ResetPairingCode

Spec == Init /\ [][Next]_vars

----------------------------------------------------------------------------
(* The gateway with its readiness probe and with the contexts of its
   dispatched requests (Spec leaves both as they are at startup: not ready,
   every context live): an agent loop, pairing required, tokens persisted to
   config.json, which holds one hash at startup. *)

InitProbe ==
    /\ Init
    /\ agentLoop /\ requirePairing /\ jwtSecret = ""
    /\ configPath # "" /\ cfgTokens # <<>>

\* the gateway's steps and the end of a dispatched request's context
NextDispatch ==
    \/ Next
    \/ \E r \in Reqs, cause \in CtxCauses : ctxDone(r, cause)

NextProbe ==
    \/ NextDispatch
    \/ \E b \in BOOLEAN : SetReady(b)
    \/ \E name \in CheckNames, ok \in BOOLEAN : RegisterCheck(name, ok)
    \/ \E r \in Reqs : readyHandler(r)
    \/ \E r \in Reqs : readyReply(r)

SpecProbe == InitProbe /\ [][NextProbe]_vars

----------------------------------------------------------------------------
(* The gateway with the scheduling its dispatch relies on: the context of a
   dispatched request ends (the timer of context.WithTimeout fires after
   120 s at the latest), and ProcessDirectWithChannel returns once its
   context has ended.  Nothing makes the processor produce a result of its
   own, and nothing makes a client send a request. *)

Fairness ==
    \A r \in Reqs :
        /\ WF_vars(\E cause \in CtxCauses : ctxDone(r, cause))
        /\ WF_vars(webhookReply(r, "aborted"))

SpecLive == InitProbe /\ [][NextDispatch]_vars /\ Fairness

----------------------------------------------------------------------------
(* The shutdown specification: the gateway behind its listener.  Requests  *)
(* are accepted while the listener is open; the ones in flight go on after *)
(* it is closed, and the processor call of a webhook may never return.     *)

NextStop ==
    \/ \E by \in {"Start", "StartContext"} : Start(by)
    \/ StartContextDone
    \/ \E ctx \in StopContexts : Stop(ctx)
    \/ ShutdownReturns
    \/ \E r \in Reqs, code \in PairCodes : Listening /\ pairHandler(r, code)
    \/ \E r \in Reqs : persistLoad(r)
    \/ \E r \in Reqs : persistSave(r)
    \/ \E r \in Reqs, auth \in AuthHeaders : Listening /\ webhookAuth(r, auth)
    \/ \E r \in Reqs : webhookLookup(r)
    \/ \E r \in Reqs, body \in Bodies, saved \in SUBSET {"receipt.jpg"} :
          webhookParse(r, body, saved)
    \/ \E r \in Reqs, outcome \in AgentOutcomes : webhookReply(r, outcome)
    \/ \E r \in Reqs, auth \in AuthHeaders : Listening /\ healthHandler(r, auth)
    \/ \E r \in Reqs : healthLookup(r)
    \/ \E r \in Reqs : healthPaired(r)
    \/ \E r \in Reqs : Listening /\ readyHandler(r)
    \/ \E r \in Reqs : readyReply(r)

SpecStop == InitProbe /\ [][NextStop]_vars

----------------------------------------------------------------------------
(* The registration specification: the gateway with checks registered      *)
(* under two names, each registration in two steps around its probe.       *)

RegNames == {"db", "queue"}

NextCheck ==
    \/ \E name \in RegNames : RegisterCheckLock(name)
    \/ \E ok \in BOOLEAN : RegisterCheckStore(ok)
    \/ \E b \in BOOLEAN : SetReady(b)
    \/ \E r \in Reqs : readyHandler(r)
    \/ \E r \in Reqs : readyReply(r)
    \/ \E r \in Reqs, auth \in AuthHeaders : healthHandler(r, auth)
    \/ \E r \in Reqs : healthLookup(r)
    \/ \E r \in Reqs : healthPaired(r)
    \/ \E r \in Reqs, code \in PairCodes : pairHandler(r, code)
    \/ \E r \in Reqs : persistLoad(r)
    \/ \E r \in Reqs : persistSave(r)
    \/ \E r \in Reqs, auth \in AuthHeaders : webhookAuth(r, auth)
    \/ \E r \in Reqs : webhookLookup(r)
    \/ \E r \in Reqs, body \in Bodies, saved \in SUBSET {"receipt.jpg"} :
          webhookParse(r, body, saved)
    \/ \E r \in Reqs, outcome \in AgentOutcomes : webhookReply(r, outcome)

SpecCheck == InitProbe /\ [][NextCheck]_vars

----------------------------------------------------------------------------
(* The state manager specification: one manager over a workspace. *)

SoleManager == {"m1"}

\* the arguments the setters are called with, and the legacy files the
\* workspace starts with, in this specification
SavedChannels == {"telegram"}
SavedAuths == {a \in BusinessAuths : a.business = "b1"}
StartLegacy == {NoFile, JsonFile(LegacyDoc)}

InitState ==
    /\ mem = [m \in Managers |-> <<>>]
    /\ mu = [m \in Managers |-> FALSE]
    /\ call = [c \in Callers |-> Idling]
    /\ failed = [m \in Managers |-> NoFailure]
    /\ persisted = [m \in Managers |-> FALSE]
    /\ got = NoResult
    /\ \E legacy \in StartLegacy :
         disk = [state |-> NoFile, tmp |-> NoFile, legacy |-> legacy]
    /\ faults = 0
    /\ clock = 1
    /\ GatewayIdle /\ JwtIdle

NextState ==
    \/ \E m \in SoleManager : NewManager(m)
    \/ \E m \in SoleManager, channel \in SavedChannels : SetLastChannel(m, channel)
    \/ \E m \in SoleManager, chatID \in ChatIDs : SetLastChatID(m, chatID)
    \/ \E m \in SoleManager, a \in SavedAuths : SetBusinessAuth(m, a)
    \/ \E m \in SoleManager : saveOpen(m)
    \/ \E m \in SoleManager : saveWrite(m)
    \/ \E m \in SoleManager : saveRename(m)
    \/ \E m \in SoleManager : saveCleanup(m)
    \/ \E m \in SoleManager : Return(m)
    \/ Crash

SpecState == InitState /\ [][NextState]_vars

----------------------------------------------------------------------------
(* The concurrent-setter specification: two goroutines call the setters of *)
(* one manager.  Each has its own arguments, so that a value in the state  *)
(* tells which of them wrote it.                                           *)

RaceCallers == {"m1", "g2"}
RaceChannel(c) == IF c = "m1" THEN "telegram" ELSE "api"
RaceAuths(c) ==
    {a \in BusinessAuths :
       a.business = "b1" /\ a.token = (IF c = "m1" THEN "jwt1" ELSE "jwt2")}

NextRace ==
    \/ NewManager("m1")
    \/ \E c \in RaceCallers : SetLastChannel(c, RaceChannel(c))
    \/ \E c \in RaceCallers, chatID \in ChatIDs : SetLastChatID(c, chatID)
    \/ \E c \in RaceCallers : \E a \in RaceAuths(c) : SetBusinessAuth(c, a)
    \/ \E c \in RaceCallers : saveOpen(c)
    \/ \E c \in RaceCallers : saveWrite(c)
    \/ \E c \in RaceCallers : saveRename(c)
    \/ \E c \in RaceCallers : saveCleanup(c)
    \/ \E c \in RaceCallers : Return(c)

SpecRace == InitState /\ [][NextRace]_vars

----------------------------------------------------------------------------
(* The shared-workspace specification: two managers constructed over one   *)
(* workspace run setters at the same time.  Each has its own lock and its  *)
(* own state in memory; the state file and the temp path are the same.     *)

SharedChannel(m) == IF m = "m1" THEN "telegram" ELSE "api"

NextShared ==
    \/ \E m \in Managers : NewManager(m)
    \/ \E m \in Managers : SetLastChannel(m, SharedChannel(m))
    \/ \E m \in Managers : saveOpen(m)
    \/ \E m \in Managers : saveWrite(m)
    \/ \E m \in Managers : saveRename(m)
    \/ \E m \in Managers : saveCleanup(m)
    \/ \E m \in Managers : Return(m)

\* the workspace holds no legacy file: the constructions save nothing
InitShared == InitState /\ disk.legacy = NoFile

SpecShared == InitShared /\ [][NextShared]_vars

----------------------------------------------------------------------------
(* The tenant specification: one manager whose setters are called for two  *)
(* tenants, with I/O failures.                                             *)

NextFrame ==
    \/ \E m \in SoleManager : NewManager(m)
    \/ \E m \in SoleManager, channel \in SavedChannels : SetLastChannel(m, channel)
    \/ \E m \in SoleManager, chatID \in ChatIDs : SetLastChatID(m, chatID)
    \/ \E m \in SoleManager, a \in BusinessAuths : SetBusinessAuth(m, a)
    \/ \E m \in SoleManager : saveOpen(m)
    \/ \E m \in SoleManager : saveWrite(m)
    \/ \E m \in SoleManager : saveRename(m)
    \/ \E m \in SoleManager : saveCleanup(m)
    \/ \E m \in SoleManager : Return(m)

SpecFrame == InitState /\ [][NextFrame]_vars

----------------------------------------------------------------------------
(* The caller specification: the state manager with a caller that takes    *)
(* the tenant map with GetActiveAuth and writes into the map it was given; *)
(* of the setters, the one that writes the tenant map.                     *)

NextView ==
    \/ \E m \in SoleManager : NewManager(m)
    \/ \E m \in SoleManager, a \in SavedAuths : SetBusinessAuth(m, a)
    \/ \E m \in SoleManager : saveOpen(m)
    \/ \E m \in SoleManager : saveWrite(m)
    \/ \E m \in SoleManager : saveRename(m)
    \/ \E m \in SoleManager : saveCleanup(m)
    \/ \E m \in SoleManager : Return(m)
    \/ Crash
    \/ \E m \in SoleManager : CallGetActiveAuth(m)
    \/ \E b \in Tenants, e \in CallerEntries : StoreReturned(b, e)
    \/ \E b \in Tenants : DeleteReturned(b)

SpecView == InitState /\ [][NextView]_vars

----------------------------------------------------------------------------
(* The reload specification: a first manager m1 over a workspace holding   *)
(* any legacy file, and a second manager m2 constructed later over the     *)
(* same workspace.  The managers are used one after the other: a call of   *)
(* one starts when the other has no call in progress.                      *)

\* the legacy file is deleted from the workspace
DeleteLegacy ==
    /\ disk.legacy # NoFile
    /\ disk' = [disk EXCEPT !.legacy = NoFile]
    /\ UNCHANGED <<mem, mu, call, faults, failed, persisted, clock,
                   got, gatewayVars, jwtVars>>

\* the arguments the first manager's setters are called with: a channel
\* other than the legacy file's, and one tenant
ReloadChannels == {"api"}
ReloadAuths == {a \in BusinessAuths : a.business = "b2"}

InitReload ==
    /\ mem = [m \in Managers |-> <<>>]
    /\ mu = [m \in Managers |-> FALSE]
    /\ call = [c \in Callers |-> Idling]
    /\ failed = [m \in Managers |-> NoFailure]
    /\ persisted = [m \in Managers |-> FALSE]
    /\ got = NoResult
    /\ \E legacy \in LegacyFiles :
         disk = [state |-> NoFile, tmp |-> NoFile, legacy |-> legacy]
    /\ faults = 0
    /\ clock = 1
    /\ GatewayIdle /\ JwtIdle

NextReload ==
    \/ call["m2"] = Idling /\ NewManager("m1")
    \/ call["m2"] = Idling /\ \E channel \in ReloadChannels : SetLastChannel("m1", channel)
    \/ call["m2"] = Idling /\ \E chatID \in ChatIDs : SetLastChatID("m1", chatID)
    \/ call["m2"] = Idling /\ \E a \in ReloadAuths : SetBusinessAuth("m1", a)
    \/ call["m1"] = Idling /\ mem["m1"] # <<>> /\ NewManager("m2")
    \/ \E m \in Managers : saveOpen(m)
    \/ \E m \in Managers : saveWrite(m)
    \/ \E m \in Managers : saveRename(m)
    \/ \E m \in Managers : saveCleanup(m)
    \/ \E m \in Managers : Return(m)
    \/ DeleteLegacy

SpecReload == InitReload /\ [][NextReload]_vars

----------------------------------------------------------------------------
(* The validateJWT specification: the function applied to each token of a  *)
(* bounded universe at each instant.                                        *)

Instants == 0..MaxClock
Dates == {<<>>} \cup {<<t>> : t \in Instants}

\* well-formed tokens: every alg (one of them unknown to the library), signed
\* with the secret or with another key, with and without subject, exp and nbf
JwtTokens ==
    [alg : SigningMethods \cup {"XX"}, key : {"s3cret", "other"}, sub : {"", "u1"},
     exp : Dates, nbf : Dates]

\* strings that are not the serialization of a token
Malformed == {"", "garbage", "HS256.u1.s3cret", "HS256.u1,soon,-.s3cret", "a.b.c.d"}

JwtInputs ==
    {[wf |-> TRUE, str |-> EncodeJWT(t), tok |-> t] : t \in JwtTokens}
    \cup {[wf |-> FALSE, str |-> x] : x \in Malformed}

InitJWT ==
    /\ jwtIn \in JwtInputs
    /\ jwtOut = NotValidated
    /\ clock \in Instants
    /\ agentLoop = TRUE /\ requirePairing = FALSE
    /\ jwtSecret = "s3cret" /\ configPath = ""
    /\ pairedTokens = {} /\ pairingCode = "000000" /\ pairingUsed = FALSE
    /\ cfgTokens = <<>> /\ issued = 0
    /\ req = [r \in Reqs |-> Idle]
    /\ exchanges = 0
    /\ ready = FALSE /\ checks = NoChecks /\ probing = "" /\ run = NotStarted
    /\ StateIdle

\* s.validateJWT(tokenString)
Validate ==
    /\ ~jwtOut.done
    /\ LET v == validateJWT(jwtIn.str, jwtSecret, clock)
       IN  jwtOut' = [done |-> TRUE, ok |-> v.ok, sub |-> v.sub, err |-> v.err]
    /\ UNCHANGED <<jwtIn, clock, gatewayVars, stateVars>>

NextJWT == Validate

SpecJWT == InitJWT /\ [][NextJWT]_vars

----------------------------------------------------------------------------
(* Properties of the pairing exchange and of the webhook authorization,    *)
(* under Spec.                                                             *)

\* slot r's request is a POST /pair whose critical section this step runs
PairStep(r) == Free(r) /\ req'[r] # req[r] /\ req'[r].kind = "pair"

\* slot r's request is a POST /webhook that this step starts
WebhookStep(r) == Free(r) /\ req'[r] # req[r] /\ req'[r].kind = "webhook"

\* slot r's POST /webhook runs isAuthorized's second critical section
LookupStep(r) ==
    req[r].kind = "webhook" /\ req[r].pc = "lookup" /\ req'[r] # req[r]

\* the bearer token of a header, as a client means it
BearerToken(auth) == IF HasPrefix(auth, "Bearer ") THEN TrimPrefix(auth, "Bearer ") ELSE ""

\* C1: between two rotations of the pairing code at most one exchange
\* succeeds, whatever the interleaving; once it has, GetPairingCode returns
\* "" and every further exchange submitting the same code is answered 410
\* and adds no credential.
C1_OneExchange ==
    /\ [](exchanges <= 1 /\ (exchanges = 1 => GetPairingCode = ""))
    /\ [][\A r \in Reqs :
            PairStep(r) /\ exchanges = 1 /\ req'[r].code = pairingCode
            => /\ req'[r].status = 410
               /\ req'[r].token = ""
               /\ pairedTokens' = pairedTokens]_vars

\* an exchange has succeeded and a later one with the same code got 410
C1_Witness ==
    /\ exchanges = 1
    /\ req["a"].kind = "pair" /\ req["a"].pc = "done" /\ req["a"].token # ""
    /\ req["b"].kind = "pair" /\ req["b"].status = 410
    /\ req["b"].code = req["a"].code

\* C2: an exchange that fails (no header, wrong code, code used) leaves the
\* pairing code, its used flag, the credential set and the list of the
\* configuration store as they were; so an exchange presenting the current
\* code while it is unused succeeds, whatever failed before it.
C2_FailedExchangeInert ==
    [][\A r \in Reqs :
         PairStep(r)
         => /\ req'[r].status \in {400, 403, 410}
               => UNCHANGED <<pairingCode, pairingUsed, pairedTokens, cfgTokens>>
            /\ ~pairingUsed /\ req'[r].code = pairingCode
               => /\ req'[r].status \in {0, 200}
                  /\ req'[r].token # ""
                  /\ hashToken(req'[r].token) \in pairedTokens']_vars

\* a wrong code was refused, and the only exchange that succeeded came after
C2_Witness ==
    /\ exchanges = 1 /\ issued = 1
    /\ req["a"].kind = "pair" /\ req["a"].status = 403
    /\ req["b"].kind = "pair" /\ req["b"].token # ""
    /\ req["b"].code = pairingCode

\* C3: once the credential set is non-empty it is never empty again; from
\* then on a webhook request is admitted only with a Bearer token whose hash
\* is in the set or, a JWT secret being configured, with a valid JWT; a
\* request without Authorization header is answered 401.
C3_BootstrapEnds ==
    [][/\ pairedTokens # {} => pairedTokens' # {}
       /\ \A r \in Reqs :
            (WebhookStep(r) \/ LookupStep(r)) /\ pairedTokens # {}
            => LET auth == req'[r].auth
               IN  /\ req'[r].pc = "parse"
                      => \/ /\ req'[r].via = "token"
                            /\ HasPrefix(auth, "Bearer ")
                            /\ hashToken(BearerToken(auth)) \in pairedTokens
                         \/ /\ req'[r].via = "jwt"
                            /\ jwtSecret # ""
                            /\ validateJWT(BearerToken(auth), jwtSecret, clock).ok
                   /\ auth = "" => req'[r].pc = "done" /\ req'[r].status = 401]_vars

\* pairing is optional, the first credential was issued by an exchange, and a
\* request without header was then refused
C3_Witness ==
    /\ ~requirePairing /\ issued = 1 /\ Cardinality(pairedTokens) = 1
    /\ req["a"].kind = "webhook" /\ req["a"].pc = "done"
    /\ req["a"].auth = "" /\ req["a"].status = 401

\* the header of the request leads webhookHandler to validateJWT
PresentsJwt(auth) ==
    jwtSecret # "" /\ BearerToken(auth) # "" /\ ~HasPrefix(BearerToken(auth), "pc_")

\* C4 (as stated): with pairing optional and the credential set empty every
\* webhook request is admitted, whatever its header and whether or not a JWT
\* secret is configured.
C4_AsStated ==
    [][\A r \in Reqs :
         WebhookStep(r) /\ ~requirePairing /\ pairedTokens = {}
         => req'[r].pc = "parse"]_vars

\* C4: with pairing optional and the credential set empty a webhook request
\* is admitted whatever its header, except when a JWT secret is configured
\* and the request carries a Bearer token without the "pc_" prefix: that
\* request is admitted if and only if the token is a valid JWT.
C4_Bootstrap ==
    [][\A r \in Reqs :
         WebhookStep(r) /\ ~requirePairing /\ pairedTokens = {}
         => LET auth == req'[r].auth
            IN  IF PresentsJwt(auth)
                THEN req'[r].pc = "parse"
                     <=> validateJWT(BearerToken(auth), jwtSecret, clock).ok
                ELSE req'[r].pc = "parse" /\ req'[r].via = "bootstrap"]_vars

\* a secret is configured, and the bootstrap admitted a request whose header
\* is no Bearer token at all
C4_Witness ==
    /\ jwtSecret # "" /\ ~requirePairing /\ pairedTokens = {}
    /\ req["a"].kind = "webhook" /\ req["a"].pc = "parse"
    /\ req["a"].via = "bootstrap" /\ req["a"].auth = "Basic abc"

\* C5: with a JWT secret configured, a request carrying a Bearer token
\* without the "pc_" prefix is decided by validateJWT alone, in whatever
\* state the credential set is: admitted if the token is valid, answered 401
\* if not, with neither the bootstrap test nor the lookup of the hash.
C5_JwtDecides ==
    [][\A r \in Reqs :
         WebhookStep(r) /\ PresentsJwt(req'[r].auth)
         => /\ req'[r].pc \in {"parse", "done"}
            /\ req'[r].via = "jwt"
            /\ req'[r].pc = "parse"
               <=> validateJWT(BearerToken(req'[r].auth), jwtSecret, clock).ok
            /\ req'[r].pc = "done" => req'[r].status = 401
            /\ req'[r].auth = "Bearer " \o JwtExpired => req'[r].pc = "done"]_vars

\* the bootstrap condition holds and an expired JWT was refused all the same
C5_Witness ==
    /\ jwtSecret # "" /\ ~requirePairing /\ pairedTokens = {}
    /\ req["a"].kind = "webhook" /\ req["a"].pc = "done"
    /\ req["a"].auth = "Bearer " \o JwtExpired /\ req["a"].status = 401

\* C6: a Bearer token with the "pc_" prefix never reaches validateJWT, even
\* with a JWT secret configured: the request is decided by isAuthorized, that
\* is by the bootstrap test and then by the membership of the token's hash.
C6_LegacyTokenSkipsJwt ==
    [][\A r \in Reqs :
         /\ WebhookStep(r) /\ HasPrefix(BearerToken(req'[r].auth), "pc_")
            => IF ~requirePairing /\ pairedTokens = {}
               THEN req'[r].pc = "parse" /\ req'[r].via = "bootstrap"
               ELSE req'[r].pc = "lookup"
         /\ LookupStep(r) /\ HasPrefix(BearerToken(req[r].auth), "pc_")
            => IF hashToken(BearerToken(req[r].auth)) \in pairedTokens
               THEN req'[r].pc = "parse" /\ req'[r].via = "token"
               ELSE /\ req'[r].pc = "done" /\ req'[r].status = 401
                    /\ req'[r].via = "legacy"]_vars

\* a secret is configured and an issued "pc_" token was admitted by its hash
C6_Witness ==
    /\ jwtSecret # "" /\ issued >= 1
    /\ req["a"].kind = "webhook" /\ req["a"].pc = "parse"
    /\ req["a"].via = "token" /\ req["a"].auth = "Bearer pc_01"

\* C15: POST /pair answers 400 without X-Pairing-Code header, else 410 when
\* the current code is consumed, else 403 when the code sent differs from
\* the current code, else 200 with a token (the reply is 200 whatever the
\* persistence of the hash does); a 403 leaves the code exchangeable.
C15_PairReplies ==
    /\ [](\A r \in Reqs :
            req[r].kind = "pair" /\ req[r].pc = "done"
            => IF req[r].token = "" THEN req[r].status \in {400, 403, 410}
               ELSE req[r].status = 200)
    /\ [][\A r \in Reqs :
            PairStep(r)
            => LET code == req'[r].code
               IN  /\ code = "" => req'[r].status = 400
                   /\ code # "" /\ pairingUsed => req'[r].status = 410
                   /\ code # "" /\ ~pairingUsed /\ code # pairingCode
                      => /\ req'[r].status = 403
                         /\ ~pairingUsed' /\ pairingCode' = pairingCode
                   /\ code # "" /\ ~pairingUsed /\ code = pairingCode
                      => req'[r].token # "" /\ req'[r].status \in {0, 200}
                   /\ req'[r].status \in {400, 403, 410} => req'[r].token = ""]_vars

\* a code that differs from the current one only by its padding got 403,
\* and a request without header 400
C15_Witness ==
    /\ pairingCode = "000007" /\ ~pairingUsed
    /\ req["a"].kind = "pair" /\ req["a"].code = "7" /\ req["a"].status = 403
    /\ req["b"].kind = "pair" /\ req["b"].code = "" /\ req["b"].status = 400

\* this step changes the pairing code or makes a used code unused
Regenerates == pairingCode' # pairingCode \/ (pairingUsed /\ ~pairingUsed')

\* slot r's POST /pair succeeds in this step
Exchanges(r) == PairStep(r) /\ req'[r].token # ""

\* C16: a rotation, from any state, leaves an unused code drawn from the
\* generator, which GetPairingCode returns, and leaves the credential set as
\* it was; from then on the first exchange presenting that code succeeds and
\* no second one does before the next rotation.
C16_Rotation ==
    /\ [](pairingUsed <=> exchanges = 1)
    /\ [][/\ Regenerates
             => /\ ~pairingUsed'
                /\ pairingCode' \in generatePairingCode
                /\ GetPairingCode' = pairingCode'
                /\ exchanges' = 0
                /\ pairedTokens' = pairedTokens
          /\ \A r \in Reqs :
               PairStep(r) /\ req'[r].code = pairingCode
               => IF exchanges = 0
                  THEN /\ req'[r].token # "" /\ exchanges' = 1
                       /\ pairedTokens \subseteq pairedTokens'
                  ELSE req'[r].token = "" /\ exchanges' = 1]_vars

\* after a first exchange the code was rotated and the new code exchanged:
\* both credentials are in the set
C16_Witness ==
    /\ issued = 2 /\ exchanges = 1 /\ cfgTokens = <<>>
    /\ pairedTokens = {hashToken("pc_01"), hashToken("pc_02")}
    /\ req["a"].kind = "pair" /\ req["a"].token = "pc_02"
    /\ req["a"].code = pairingCode

\* C17 (as stated): a code that has been exchanged is unusable for good: no
\* step makes a consumed code the current unused code again, and no exchange
\* succeeds with a code with which an exchange still on record succeeded.
C17_AsStated ==
    [][/\ pairingUsed => ~(~pairingUsed' /\ pairingCode' = pairingCode)
       /\ \A r \in Reqs : \A q \in Reqs \ {r} :
            Exchanges(r)
            => ~(/\ req[q].kind = "pair" /\ req[q].token # ""
                 /\ req[q].code = req'[r].code)]_vars

\* C17: at any time at most one code is exchangeable: an exchange succeeds
\* only with the current code while it is unused, and consumes it; a
\* consumed code becomes exchangeable again only by a rotation whose
\* generator returns a value, which may be a value used before.
C17_OneExchangeableCode ==
    [][/\ \A r \in Reqs :
            Exchanges(r)
            => /\ req'[r].code = pairingCode /\ ~pairingUsed
               /\ pairingUsed' /\ pairingCode' = pairingCode
       /\ Regenerates
          => /\ req' = req
             /\ ~pairingUsed' /\ pairingCode' \in generatePairingCode]_vars

\* a code was exchanged, a rotation returned the same value, and it was
\* exchanged a second time
C17_Witness ==
    /\ req["b"].kind = "pair" /\ req["b"].token = "pc_01"
    /\ req["a"].kind = "pair" /\ req["a"].token = "pc_02"
    /\ req["a"].code = req["b"].code

WebhookMoves(r) == req'[r] # req[r] /\ req'[r].kind = "webhook"

\* what admitted the request of slot r holds in the state it was decided in
Granted(r) ==
    LET auth == req'[r].auth
    IN  CASE req'[r].via = "jwt" ->
               jwtBranch(auth) /\ validateJWT(extractRawToken(auth), jwtSecret, clock).ok
          [] req'[r].via = "token" -> isAuthorizedLookup(auth)
          [] req'[r].via = "bootstrap" -> ~requirePairing /\ pairedTokens = {}
          [] OTHER -> FALSE

\* C21: a /webhook request goes through authorization, body parsing,
\* dispatch and reply in that order: the body is parsed only after the
\* authorization was granted, ProcessDirectWithChannel is called only from
\* the parsing step and only with a non-blank message or a saved upload, a
\* 401 comes from the authorization step alone (no body parsed, no file
\* saved, no call), a 400 from the parsing step, a 200 or 500 from the call,
\* and a request that was answered takes no further step.
C21_WebhookOrder ==
    /\ [](\A r \in Reqs : req[r].kind = "webhook" /\ req[r].pc = "done"
            => req[r].status \in {200, 400, 401, 500})
    /\ [][\A r \in Reqs :
            WebhookMoves(r)
            => LET deciding == Free(r) \/ (req[r].kind = "webhook" /\ req[r].pc = "lookup")
                   parsing == req[r].kind = "webhook" /\ req[r].pc = "parse"
                   calling == req[r].kind = "webhook" /\ req[r].pc = "agent"
               IN  CASE req'[r].pc = "lookup" -> Free(r)
                     [] req'[r].pc = "parse" -> deciding /\ Granted(r)
                     [] req'[r].pc = "agent" ->
                          \/ /\ parsing
                             /\ TrimSpace(req'[r].message) # "" \/ req'[r].mediaPaths # {}
                             /\ req'[r].ctx = "live"
                          \/ calling /\ req'[r].ctx # "live"
                     [] req'[r].pc = "done" ->
                          CASE req'[r].status = 401 -> deciding
                            [] req'[r].status = 400 -> parsing
                            [] OTHER -> calling
                     [] OTHER -> FALSE]_vars

\* a request admitted by its JWT has been parsed and dispatched
C21_Witness ==
    /\ req["a"].kind = "webhook" /\ req["a"].pc = "agent"
    /\ req["a"].sessionKey = "user:u1" /\ req["a"].message = "hi"
    /\ req["a"].mediaPaths = {}

\* the string holds nothing but spaces
Blank(s) == \A i \in 1..Len(s) : SubSeq(s, i, i) = " "

\* the request of slot r is dispatched with this message and these files
Dispatched(r, message, files) ==
    /\ req'[r].pc = "agent" /\ req'[r].message = message
    /\ req'[r].mediaPaths = {SaveUploadedFile(f) : f \in files}

\* C22 (as stated): an authorized request whose body parses is answered 400
\* without dispatch when its message is empty and it has no attachment, is
\* dispatched with the placeholder message and the attachment paths when its
\* message is empty and it has an attached file, and is dispatched with its
\* message unchanged when the message is not empty.
C22_AsStated ==
    [][\A r \in Reqs :
         req[r].pc = "parse" /\ req'[r] # req[r]
         => \A body \in Bodies : \A saved \in SUBSET body.files :
              body.ok /\ webhookParse(r, body, saved)
              => /\ body.message = "" /\ body.files = {}
                    => req'[r].pc = "done" /\ req'[r].status = 400
                 /\ body.message = "" /\ body.files # {}
                    => Dispatched(r, "Process the attached receipt", body.files)
                 /\ body.message # ""
                    => req'[r].pc = "agent" /\ req'[r].message = body.message]_vars

\* C22: an authorized request whose body parses is answered 400 without
\* dispatch when its message is blank (empty or spaces only) and no upload
\* was saved; is dispatched with the placeholder message and the paths of
\* the saved uploads when its message is blank and an upload was saved; is
\* dispatched with its message as sent when the message is not blank; and a
\* dispatched request is answered 200 exactly when the processor returns no
\* error.
C22_BlankMessage ==
    [][\A r \in Reqs :
         /\ req[r].pc = "parse" /\ req'[r] # req[r]
            => \A body \in Bodies : \A saved \in SUBSET body.files :
                 body.ok /\ webhookParse(r, body, saved)
                 => /\ Blank(body.message) /\ saved = {}
                       => req'[r].pc = "done" /\ req'[r].status = 400
                    /\ Blank(body.message) /\ saved # {}
                       => Dispatched(r, "Process the attached receipt", saved)
                    /\ ~Blank(body.message) => Dispatched(r, body.message, saved)
         /\ req[r].pc = "agent" /\ req'[r] # req[r]
            => \A outcome \in AgentOutcomes :
                 webhookReply(r, outcome)
                 => req'[r].status = IF outcome = "response" THEN 200 ELSE 500]_vars

\* a request with an empty message and one saved upload was dispatched with
\* the placeholder
C22_Witness ==
    /\ req["a"].kind = "webhook" /\ req["a"].pc = "agent"
    /\ req["a"].message = "Process the attached receipt"
    /\ req["a"].mediaPaths = {"media/receipt.jpg"}

\* slot r's GET /health is answered in this step
HealthReplies(r) ==
    req'[r] # req[r] /\ req'[r].kind = "health" /\ req'[r].pc = "done"

\* the token of the header is a credential
Credentialed(auth) == hashToken(TrimPrefix(auth, "Bearer ")) \in pairedTokens

\* C25: GET /health is always answered 200.  With the agent loop set, the
\* flag is true when isAuthorized admits the request (by the bootstrap rule
\* in its first critical section, by the credential set in its second), and
\* otherwise is whether the credential set is non-empty when
\* HasPairedClients reads it; without the agent loop no "paired" key is
\* written.  (A false flag is written as the absence of the key.)
C25_HealthPaired ==
    [][\A r \in Reqs :
         /\ HealthReplies(r)
            => /\ req'[r].status = 200
               /\ "paired" \in req'[r].keys <=> req'[r].paired
               /\ ~agentLoop => "paired" \notin req'[r].keys
               /\ agentLoop
                  => CASE Free(r) ->
                            /\ req'[r].paired
                            /\ ~requirePairing /\ pairedTokens = {}
                       [] req[r].pc = "lookup" ->
                            req'[r].paired /\ Credentialed(req[r].auth)
                       [] OTHER -> req'[r].paired = (pairedTokens # {})
         /\ req'[r] # req[r] /\ req'[r].kind = "health" /\ req'[r].pc = "has"
            => \/ /\ Free(r)
                  /\ requirePairing \/ pairedTokens # {}
                  /\ ~HasPrefix(req'[r].auth, "Bearer ")
               \/ req[r].pc = "lookup" /\ ~Credentialed(req[r].auth)]_vars

\* the header is one the gateway authorizes a /webhook request by, in the
\* current state
Admits(auth) ==
    IF jwtBranch(auth) THEN validateJWT(extractRawToken(auth), jwtSecret, clock).ok
    ELSE \/ ~requirePairing /\ pairedTokens = {}
         \/ HasPrefix(auth, "Bearer ") /\ Credentialed(auth)

\* C25 (as stated): with the agent loop set, the flag of a /health reply is
\* true if the request itself is authorized, otherwise true if the
\* credential set is non-empty, otherwise false.
C25_AsStated ==
    [][\A r \in Reqs :
         HealthReplies(r) /\ agentLoop
         => req'[r].paired = (Admits(req'[r].auth) \/ pairedTokens # {})]_vars

\* with the agent loop, pairing required and no credential, a request with a
\* forged token is told paired = false: the key is absent from the reply
C25_Witness ==
    /\ agentLoop /\ requirePairing /\ pairedTokens = {}
    /\ req["a"].kind = "health" /\ req["a"].pc = "done"
    /\ req["a"].auth = "Bearer pc_01"
    /\ ~req["a"].paired /\ req["a"].keys = {"status", "uptime"}

\* C26: the token a successful exchange returns starts with "pc_" and its
\* hash is in the credential set from the step that issues it; every GET
\* /health answered once an exchange has succeeded reports paired:true,
\* whatever its header; and whenever the used flag is set the credential set
\* is non-empty.
C26_PairedAfterExchange ==
    /\ [](pairingUsed => pairedTokens # {})
    /\ [](\A r \in Reqs :
            req[r].kind = "pair" /\ req[r].token # ""
            => /\ HasPrefix(req[r].token, "pc_")
               /\ hashToken(req[r].token) \in pairedTokens)
    /\ [][\A r \in Reqs :
            /\ Exchanges(r) => hashToken(req'[r].token) \in pairedTokens'
            /\ HealthReplies(r) /\ issued > 0
               => req'[r].paired /\ "paired" \in req'[r].keys]_vars

\* after an exchange, a /health request without a header is told paired:true
C26_Witness ==
    /\ \E r \in Reqs : req[r].kind = "pair" /\ req[r].token = "pc_01"
    /\ pairingUsed /\ pairedTokens = {hashToken("pc_01")}
    /\ req["a"].kind = "health" /\ req["a"].pc = "done"
    /\ req["a"].auth = "" /\ req["a"].paired

\* C27: the flag of GET /health does not depend on the Authorization
\* header: in every state, healthHandler computes for every header the flag
\* it computes for a request without one, hence the same flag for any two
\* headers; and the flag of every reply, however the handler's steps were
\* interleaved with exchanges, is what the server state alone gives when the
\* reply is made (pairing optional, or a credential exists).
C27_FlagIgnoresHeader ==
    /\ [](\A auth \in AuthHeaders : healthFlag(auth) = healthFlag(""))
    /\ [][\A r \in Reqs :
            HealthReplies(r) /\ agentLoop
            => req'[r].paired = (~requirePairing \/ pairedTokens # {})]_vars

\* a request presenting a token that is no credential is told paired:true,
\* as the holder of the credential is
C27_Witness ==
    /\ requirePairing /\ pairedTokens = {hashToken("pc_01")}
    /\ req["a"].kind = "health" /\ req["a"].pc = "done"
    /\ req["a"].auth = "Bearer pc_00" /\ req["a"].paired
    /\ healthFlag("Bearer pc_01")

\* t occurs in s
Contains(s, t) ==
    \E i \in 1..(Len(s) - Len(t) + 1) : SubSeq(s, i, i + Len(t) - 1) = t

\* the session key the claim gives a request admitted by `via`
KeyOf(auth, via) ==
    LET token == TrimPrefix(auth, "Bearer ")
    IN  IF via = "jwt" THEN "user:" \o validateJWT(token, jwtSecret, clock).sub
        ELSE "api:" \o SubSeq(hashToken(token), 1, 8)

\* C29: an admitted /webhook request has the session key "user:" + the
\* subject of its JWT when validateJWT admitted it, and "api:" + the first 8
\* hex digits of the SHA-256 of the token it presented otherwise: a function
\* of the credential alone, in which the token itself does not occur; and
\* that key is the one ProcessDirectWithChannel is called with.
C29_SessionKey ==
    /\ [](\A r \in Reqs :
            req[r].kind = "webhook" /\ req[r].pc = "parse"
            => LET token == TrimPrefix(req[r].auth, "Bearer ")
               IN  /\ req[r].sessionKey = KeyOf(req[r].auth, req[r].via)
                   /\ req[r].via # "jwt" => Len(req[r].sessionKey) = 12
                   /\ token # "" => ~Contains(req[r].sessionKey, token))
    /\ [][\A r \in Reqs :
            req[r].pc = "parse" /\ req'[r] # req[r] /\ req'[r].pc = "agent"
            => req'[r].sessionKey = req[r].sessionKey]_vars

\* a request presenting the first token issued is dispatched under the key
\* made of the first 8 digits of that token's hash
C29_Witness ==
    /\ hashToken("pc_01") \in pairedTokens
    /\ req["a"].kind = "webhook" /\ req["a"].pc = "agent"
    /\ req["a"].sessionKey = "api:c3801b44"

\* the hashes in a list of the Config Store
Hashes(list) == {list[i] : i \in 1..Len(list)}

\* C20 (as stated): no issued hash is lost from the persisted list, whatever
\* the interleaving of exchanges and rotations: a hash that is in the Config
\* Store's list is still in it after every step.
C20_AsStated == [][Hashes(cfgTokens) \subseteq Hashes(cfgTokens')]_vars

\* isAuthorized evaluated in one critical section, on the current state
isAuthorizedAtomic(auth) ==
    \/ ~requirePairing /\ Cardinality(pairedTokens) = 0
    \/ HasPrefix(auth, "Bearer ") /\ isAuthorizedLookup(auth)

\* this step ends a call of isAuthorized made for the request of slot r
EndsIsAuthorized(r) ==
    /\ req'[r] # req[r]
    /\ req[r].pc \in {"idle", "done", "lookup"}
    /\ \/ /\ req'[r].kind = "webhook" /\ req'[r].pc \in {"parse", "done"}
          /\ req'[r].via # "jwt"
       \/ agentLoop /\ req'[r].kind = "health" /\ req'[r].pc \in {"done", "has"}

\* the result of that call: the webhook goes on to its body, the health
\* reply is made without asking HasPairedClients
IsAuthorizedResult(r) ==
    IF req'[r].kind = "webhook" THEN req'[r].pc = "parse" ELSE req'[r].pc = "done"

\* C36: isAuthorized reads the credential set in two critical sections, and
\* under every interleaving with pairing exchanges and rotations its result
\* is what one atomic evaluation gives on the state of the critical section
\* that decided it (the first for the bootstrap rule and for a header that
\* is not a Bearer header, the second for the lookup): it grants nothing
\* that no state during the call grants.
C36_TwoReads ==
    [][\A r \in Reqs :
         EndsIsAuthorized(r)
         => IsAuthorizedResult(r) = isAuthorizedAtomic(req'[r].auth)]_vars

\* a webhook has been admitted by the lookup with the token of a pairing
\* exchange that is still being persisted
C36_Witness ==
    /\ req["a"].kind = "webhook" /\ req["a"].pc = "parse" /\ req["a"].via = "token"
    /\ req["b"].kind = "pair" /\ req["b"].pc = "persist"
    /\ req["a"].auth = "Bearer " \o req["b"].token

\* the header presents a token that a pairing exchange of this process has
\* returned
PresentsIssued(auth) ==
    \E i \in 1..issued : auth = "Bearer " \o generateBearerToken(i).token

\* C38: a token returned by a successful exchange stays a credential for
\* the life of the process: its hash is never taken out of the credential
\* set, by a rotation, a later exchange or a failed request, and every step
\* of a /webhook that presents it goes on towards the body, never to a 401,
\* with or without a JWT secret (the "pc_" prefix keeps it out of the JWT
\* branch).
C38_TokenStaysValid ==
    /\ [](\A i \in 1..issued : generateBearerToken(i).hash \in pairedTokens)
    /\ [][\A r \in Reqs :
            /\ req'[r] # req[r]
            /\ req'[r].kind = "webhook"
            /\ req[r].pc \in {"idle", "done", "lookup"}
            /\ PresentsIssued(req'[r].auth)
            => req'[r].pc \in {"lookup", "parse"}]_vars

\* a gateway with a JWT secret has admitted, by the lookup, a webhook that
\* presents the first token issued, after a second exchange and a rotation
C38_Witness ==
    /\ jwtSecret # ""
    /\ issued = 2 /\ exchanges = 0 /\ ~pairingUsed
    /\ req["a"].kind = "webhook" /\ req["a"].pc = "parse" /\ req["a"].via = "token"
    /\ req["a"].auth = "Bearer " \o generateBearerToken(1).token

\* "api:" and the first 8 hex digits of the SHA-256 of the empty string
AnonymousKey == "api:e3b0c442"

\* the request of slot r was admitted by the bootstrap rule and carries no
\* Authorization header
BootstrapNoHeader(r) ==
    /\ req[r].kind = "webhook" /\ req[r].pc = "parse"
    /\ req[r].via = "bootstrap" /\ req[r].auth = ""

\* C39: a request that the bootstrap rule admits without an Authorization
\* header gets the session key computed from the empty header, "api:" and
\* the first 8 hex digits of the SHA-256 of the empty string, and is
\* dispatched to the processor under that key: all such requests share one
\* session, whoever sends them.
C39_BootstrapKey ==
    /\ [](\A r \in Reqs : BootstrapNoHeader(r) => req[r].sessionKey = AnonymousKey)
    /\ [][\A r \in Reqs :
            BootstrapNoHeader(r) /\ req'[r] # req[r] /\ req'[r].pc = "agent"
            => req'[r].sessionKey = AnonymousKey]_vars

\* a request is with the processor under that key on an open gateway that
\* has no credential
C39_Witness ==
    /\ ~requirePairing /\ pairedTokens = {}
    /\ req["a"].kind = "webhook" /\ req["a"].pc = "agent"
    /\ req["a"].sessionKey = AnonymousKey

----------------------------------------------------------------------------
(* Properties of the dispatch, under SpecLive. *)

----------------------------------------------------------------------------
(* Properties of the gateway with its readiness probe, under SpecProbe. *)

\* C23: when ProcessDirectWithChannel returns an error, its own or that of
\* the ended context, the request is answered 500 with that error's text;
\* the step changes neither the pairing code, the used flag, the credential
\* set nor the readiness state, and the slot is free for the next request,
\* which the gateway accepts.
C23_ProcessorFailure ==
    /\ [][\A r \in Reqs : \A outcome \in {"error", "aborted"} :
            webhookReply(r, outcome)
            => /\ req'[r].pc = "done" /\ req'[r].status = 500
               /\ req'[r].error = agentErr(outcome, req[r].ctx) /\ req'[r].error # ""
               /\ UNCHANGED <<pairingCode, pairingUsed, pairedTokens, ready, checks>>]_vars
    /\ [](\A r \in Reqs :
            req[r].kind = "webhook" /\ req[r].pc = "done" /\ req[r].status = 500
            => /\ ENABLED webhookAuth(r, "Bearer pc_00")
               /\ ENABLED healthHandler(r, "")
               /\ ENABLED readyHandler(r))

\* a request whose context timed out was answered 500 while the gateway is
\* ready and holds two credentials
C23_Witness ==
    /\ req["a"].kind = "webhook" /\ req["a"].pc = "done"
    /\ req["a"].status = 500 /\ req["a"].error = "context deadline exceeded"
    /\ ready /\ Cardinality(pairedTokens) = 2 /\ pairingUsed

\* slot r's GET /ready takes its copy in this step
ReadyCopies(r) == Free(r) /\ req'[r] # req[r] /\ req'[r].kind = "ready"

\* slot r's GET /ready is answered in this step
ReadyReplies(r) ==
    req[r].kind = "ready" /\ req[r].pc = "reply" /\ req'[r] # req[r]

\* C28: GET /ready decides on the copy of s.ready and s.checks it takes in
\* its critical section: 503 when the gateway was not marked ready, 503 when
\* it was and the latest result of some check is "fail", 200 otherwise; the
\* reply carries that copy, and a RegisterCheck or SetReady that runs after
\* the copy was taken changes neither the copy nor the reply.
C28_ReadyReply ==
    [][\A r \in Reqs :
         /\ ReadyCopies(r)
            => /\ req'[r].pc = "reply"
               /\ req'[r].ready = ready /\ req'[r].checks = checks
         /\ ReadyReplies(r)
            => /\ req'[r].pc = "done"
               /\ req'[r].checks = req[r].checks
               /\ ~req[r].ready => req'[r].status = 503
               /\ req[r].ready
                  => req'[r].status =
                       IF "fail" \in {req[r].checks[n] : n \in DOMAIN req[r].checks}
                       THEN 503 ELSE 200
         /\ req[r].kind = "ready" /\ req[r].pc = "reply"
            /\ (checks' # checks \/ ready' # ready)
            => req'[r] = req[r]]_vars

\* a check registered as failing after the copy was taken did not alter the
\* reply: 200 with the check as it was copied
C28_Witness ==
    /\ req["a"].kind = "ready" /\ req["a"].pc = "done" /\ req["a"].status = 200
    /\ "db" \in DOMAIN req["a"].checks /\ req["a"].checks["db"] = "ok"
    /\ "db" \in DOMAIN checks /\ checks["db"] = "fail"

\* C19: no step takes a hash out of s.pairedTokens; a successful exchange adds
\* exactly the hash of the token it issues, one hash more than before; every
\* other step (failed exchange, persistence, rotation, reset, webhook, health,
\* ready, SetReady, RegisterCheck) leaves the set as it was.
C19_TokensOnlyGrow ==
    [][/\ pairedTokens \subseteq pairedTokens'
       /\ \A r \in Reqs :
            Exchanges(r)
            => /\ pairedTokens' = pairedTokens \cup {hashToken(req'[r].token)}
               /\ Cardinality(pairedTokens') = Cardinality(pairedTokens) + 1
       /\ ~(\E r \in Reqs : Exchanges(r)) => pairedTokens' = pairedTokens]_vars

\* the hash handed to WithPairing and the hashes of two exchanges are in the
\* set, after a rotation, a check registration and a /ready reply
C19_Witness ==
    /\ pairedTokens = {hashToken("pc_00"), hashToken("pc_01"), hashToken("pc_02")}
    /\ ready /\ checks # NoChecks
    /\ req["a"].kind = "ready" /\ req["a"].status = 200
    /\ req["b"].kind = "pair" /\ req["b"].status = 403

----------------------------------------------------------------------------
(* Properties of validateJWT, under SpecJWT. *)

\* what the token handed to validateJWT is, at the instant of the call
UsesHMAC == jwtIn.tok.alg \in {"HS256", "HS512"}
SignedWithSecret == jwtIn.tok.key = jwtSecret
NotExpired == jwtIn.tok.exp = <<>> \/ clock < jwtIn.tok.exp[1]
HasSubject == jwtIn.tok.sub # ""
NotBeforeReached == jwtIn.tok.nbf = <<>> \/ jwtIn.tok.nbf[1] <= clock

\* C7 (as stated): validateJWT returns the claims if and only if the token
\* is well-formed, uses an HMAC signing method, carries a signature valid
\* under the secret, has not expired, and has a non-empty subject.
C7_AsStated ==
    jwtOut.done
    => (jwtOut.ok <=> /\ jwtIn.wf
                      /\ UsesHMAC /\ SignedWithSecret /\ NotExpired /\ HasSubject)

\* C7: validateJWT returns the claims (with the token's subject) if and only
\* if the token is well-formed, uses an HMAC signing method, carries a
\* signature valid under the secret, has not expired, has reached its
\* not-before time if it names one, and has a non-empty subject.
C7_ValidJwt ==
    jwtOut.done
    => /\ jwtOut.ok <=> /\ jwtIn.wf
                        /\ UsesHMAC /\ SignedWithSecret /\ NotExpired /\ HasSubject
                        /\ NotBeforeReached
       /\ jwtOut.ok => jwtOut.sub = jwtIn.tok.sub

\* a token good in every respect the claim names was refused because its
\* not-before time lies ahead
C7_Witness ==
    /\ jwtOut.done /\ ~jwtOut.ok /\ jwtIn.wf
    /\ UsesHMAC /\ SignedWithSecret /\ NotExpired /\ HasSubject
    /\ ~NotBeforeReached

----------------------------------------------------------------------------
(* Properties of the state manager, under SpecState. *)

Setters == {"SetLastChannel", "SetLastChatID", "SetBusinessAuth"}

\* the call op(arg) has had its effect on the state st
Applied(op, arg, st) ==
    CASE op = "SetLastChannel" -> st.LastChannel = arg
      [] op = "SetLastChatID" -> st.LastChatID = arg
      [] op = "SetBusinessAuth" ->
           /\ arg.business \in DOMAIN st.ActiveAuth
           /\ st.ActiveAuth[arg.business].JWTToken = arg.token
           /\ st.ActiveAuth[arg.business].Channel = arg.channel
           /\ st.ActiveAuth[arg.business].ChatID = arg.chatID

\* the call c writes the field (or the map entry) that the call f wrote
Overwrites(c, f) ==
    /\ c.op = f.op
    /\ c.op = "SetBusinessAuth" => c.arg.business = f.arg.business

\* C8: at every point where the process can stop, the state file is absent
\* or holds the complete serialization of a state that was held in memory;
\* a save that fails, or that a crash interrupts, leaves the content the
\* file had.
C8_AtomicFile ==
    /\ [](/\ disk.state.form \in {"absent", "json"}
          /\ \A m \in Managers :
               call[m].pc = "ret" /\ call[m].err => disk.state = call[m].prev)
    /\ [][/\ disk'.state # disk.state
             => \E m \in Managers :
                  /\ mem[m] # <<>>
                  /\ disk'.state = JsonFile(Marshal(mem[m][1]))
          /\ (\A m \in Managers : mem'[m] = <<>>) => disk'.state = disk.state]_vars

\* the process died while the temp file was being written over an existing
\* state file
C8_Witness ==
    /\ mem["m1"] = <<>>
    /\ disk.tmp.form = "partial"
    /\ disk.state.form = "json"

\* C9: when a setter returns success, and before it releases the lock, the
\* state file deserializes to the state in memory, which holds the updated
\* field and the timestamp just read.
C9_SavedOnReturn ==
    \A m \in Managers :
      call[m].pc = "ret" /\ call[m].op \in Setters /\ ~call[m].err
      => /\ mu[m]
         /\ Unmarshal(disk.state, ZeroState) = [ok |-> TRUE, state |-> mem[m][1]]
         /\ Applied(call[m].op, call[m].arg, mem[m][1])
         /\ mem[m][1].Timestamp = clock

\* SetBusinessAuth is about to return success over an earlier state file
C9_Witness ==
    /\ call["m1"].pc = "ret" /\ ~call["m1"].err
    /\ call["m1"].op = "SetBusinessAuth"
    /\ call["m1"].prev.form = "json"

\* C10: when persistence fails the setter returns an error, memory keeps the
\* new value and the state file keeps the content it had; the next save that
\* succeeds brings the file to the state in memory, the failed call's value
\* included unless the succeeding call wrote the same field.
C10_FailureThenConvergence ==
    \A m \in Managers :
      call[m].pc = "ret" /\ call[m].op \in Setters
      => IF call[m].err
         THEN /\ Applied(call[m].op, call[m].arg, mem[m][1])
              /\ disk.state = call[m].prev
         ELSE failed[m] # NoFailure
              => LET u == Unmarshal(disk.state, ZeroState)
                 IN  /\ u.ok /\ u.state = mem[m][1]
                     /\ ~Overwrites(call[m], failed[m])
                        => Applied(failed[m].op, failed[m].arg, u.state)

\* a setter failed, and a setter of another field is about to return success
C10_Witness ==
    /\ call["m1"].pc = "ret" /\ ~call["m1"].err
    /\ failed["m1"] # NoFailure
    /\ failed["m1"].op # call["m1"].op

\* this step is manager m's SetBusinessAuth up to its save
SetAuthStep(m) ==
    call[m] = Idling /\ call'[m].pc = "write" /\ call'[m].op = "SetBusinessAuth"

\* C14: SetBusinessAuth replaces the tenant's entry as a whole: after the
\* call the tenant has one entry, with the token, channel and chatID of the
\* call and an updatedAt read during the call, whatever the earlier entry
\* was (the same values included); the other tenants' entries are untouched.
C14_EntryReplaced ==
    [][\A m \in Managers :
         SetAuthStep(m)
         => LET a == call'[m].arg
                old == mem[m][1].ActiveAuth
                new == mem'[m][1].ActiveAuth
            IN  /\ DOMAIN new = DOMAIN old \cup {a.business}
                /\ new[a.business].JWTToken = a.token
                /\ new[a.business].Channel = a.channel
                /\ new[a.business].ChatID = a.chatID
                /\ new[a.business].UpdatedAt \in clock..clock'
                /\ new[a.business].UpdatedAt <= mem'[m][1].Timestamp
                /\ \A b \in DOMAIN old \ {a.business} : new[b] = old[b]]_vars

\* SetBusinessAuth has run again with the arguments of the entry on disk,
\* and the entry in memory has a later updatedAt
C14_Witness ==
    /\ call["m1"].pc = "write" /\ call["m1"].op = "SetBusinessAuth"
    /\ disk.state.form = "json" /\ "active_auth" \in DOMAIN disk.state.doc
    /\ LET a == call["m1"].arg
           e == disk.state.doc.active_auth[a.business]
       IN  /\ e.jwt_token = a.token /\ e.channel = a.channel /\ e.chat_id = a.chatID
           /\ e.updated_at < mem["m1"][1].ActiveAuth[a.business].UpdatedAt

\* this step is the os.Rename of manager m's save failing
RenameFails(m) == call[m].pc = "rename" /\ call'[m].pc = "cleanup"

\* this step is the cleanup of manager m's save after a failed rename
CleansUp(m) == call[m].pc = "cleanup" /\ call'[m].pc = "ret"

\* this step is manager m's setter handing its result to the caller
Returns(m) ==
    call[m].pc = "ret" /\ call[m].op \in Setters /\ call'[m] = Idling /\ mem'[m] # <<>>

----------------------------------------------------------------------------
(* Properties of construction and reload, under SpecReload. *)

\* the content of the legacy file that parses, as a State
LegacyState == Decode(LegacyDoc, ZeroState)

\* this step constructs manager m
Constructs(m) == mem[m] = <<>> /\ mem'[m] # <<>>

C12_AsStated ==
    [][\A m \in Managers :
         /\ Constructs(m)
         /\ disk.state = NoFile /\ disk.legacy # NoFile
         /\ faults' # faults \/ disk.legacy.form \in {"partial", "badtype"}
         => mem'[m] = <<ZeroState>> /\ call'[m] = Idling]_vars

\* C13: round trip.  When the first manager's calls have succeeded (its
\* latest save returned nil and no call is in progress), a manager then
\* constructed over the same workspace, whose read of the state file
\* succeeds, holds the same lastChannel, the same lastChatID and, for every
\* tenant, the same AuthEntry.
C13_RoundTrip ==
    [][Constructs("m2") /\ faults' = faults /\ persisted["m1"]
       => LET first == mem["m1"][1]
              fresh == mem'["m2"][1]
          IN  /\ fresh.LastChannel = first.LastChannel
              /\ fresh.LastChatID = first.LastChatID
              /\ DOMAIN fresh.ActiveAuth = DOMAIN first.ActiveAuth
              /\ \A b \in DOMAIN first.ActiveAuth :
                   fresh.ActiveAuth[b] = first.ActiveAuth[b]]_vars

\* each setter has succeeded on the first manager, and the second manager
\* holds what the first holds
C13_Witness ==
    /\ persisted["m1"] /\ call["m1"] = Idling /\ mem["m1"] # <<>>
    /\ mem["m1"][1].LastChannel = "api"
    /\ mem["m1"][1].LastChatID = "chat1"
    /\ DOMAIN mem["m1"][1].ActiveAuth # {}
    /\ mem["m2"] = mem["m1"]

----------------------------------------------------------------------------
(* Properties of the map GetActiveAuth returns, under SpecView. *)

\* the caller writes into the map it holds
CallerWrites ==
    \/ \E b \in Tenants, e \in CallerEntries : StoreReturned(b, e)
    \/ \E b \in Tenants : DeleteReturned(b)

\* C30: GetActiveAuth returns a copy of the tenant map.  A write of the
\* caller into the returned map changes neither the manager's state in
\* memory nor the files nor a save in progress, every save writes the
\* manager's state in memory (so no later save carries the caller's write),
\* and a SetBusinessAuth that runs after GetActiveAuth returned leaves the
\* contents of the returned map as they were.
C30_ReturnedIsCopy ==
    /\ [][CallerWrites => mem' = mem /\ disk' = disk /\ call' = call]_vars
    /\ [][/\ got.ref # "none"
          /\ \E m \in SoleManager, a \in SavedAuths : SetBusinessAuth(m, a)
          => Returned' = Returned]_vars
    /\ [](\A m \in SoleManager :
            call[m] # Idling => call[m].data = Marshal(mem[m][1]))

\* the caller holds a copy taken when tenant b1 had its first entry, has
\* stored an entry of its own under b2, and a SetBusinessAuth that ran after
\* the copy was taken has replaced b1's entry and has been saved: the state
\* file holds the manager's map, without the caller's entry
C30_Witness ==
    /\ got.ref = "copy"
    /\ DOMAIN got.map = {"b1", "b2"}
    /\ got.map["b2"] \in CallerEntries
    /\ got.map["b1"].UpdatedAt = 1
    /\ mem["m1"] # <<>> /\ call["m1"] = Idling /\ persisted["m1"]
    /\ DOMAIN mem["m1"][1].ActiveAuth = {"b1"}
    /\ mem["m1"][1].ActiveAuth["b1"].UpdatedAt = 2
    /\ disk.state = JsonFile(Marshal(mem["m1"][1]))

----------------------------------------------------------------------------
(* Properties of check registration, under SpecCheck. *)

\* C32: a call of RegisterCheck runs its probe once and stores one result:
\* the step that ends the probe leaves, under the name registered, the
\* status of that probe's outcome ("ok" for true, "fail" for false) in place
\* of any earlier one, and leaves the results of the other names as they
\* were; nothing else changes a result, so each name has exactly one result,
\* that of its most recent registration.
C32_LatestResult ==
    /\ [][\A ok \in BOOLEAN :
            RegisterCheckStore(ok)
            => /\ DOMAIN checks' = DOMAIN checks \cup {probing}
               /\ checks'[probing] = (IF ok THEN "ok" ELSE "fail")
               /\ \A n \in DOMAIN checks \ {probing} : checks'[n] = checks[n]]_vars
    /\ [][probing' # "" /\ probing = "" => checks' = checks]_vars
    /\ [][checks' # checks => probing # "" /\ probing' = ""]_vars

\* a readiness request copied the results of two names, and a registration
\* has since replaced the failing result of "db" while that of "queue" stays
C32_Witness ==
    /\ req["a"].kind = "ready"
    /\ DOMAIN req["a"].checks = RegNames
    /\ req["a"].checks["db"] = "fail" /\ req["a"].checks["queue"] = "fail"
    /\ probing = ""
    /\ checks = [n \in RegNames |-> IF n = "db" THEN "ok" ELSE "fail"]

\* C35 (as stated): the gateway's lock is never held across the processor
\* call, a registered probe or the Config Store load and save, so that a
\* GET /health or GET /ready arriving on a free connection is never blocked:
\* its handler can always take its first step.
C35_AsStated ==
    Free("a")
    => /\ ENABLED readyHandler("a")
       /\ \A auth \in AuthHeaders : ENABLED healthHandler("a", auth)

----------------------------------------------------------------------------
(* Properties of the shutdown, under SpecStop. *)

\* C33 (as stated): once the cancellation signal has fired, the drain of
\* StartContext has a bound of its own: its Shutdown can return, and
\* StartContext with it, whether or not the requests in flight complete.
C33_AsStated ==
    run.phase = "draining" /\ run.by = "StartContext" => ENABLED ShutdownReturns

----------------------------------------------------------------------------
(* Properties of concurrent setters on one manager, under SpecRace. *)

\* caller c is inside a setter
InSetter(c) == call[c] # Idling /\ call[c].op \in Setters

\* C34: setters called concurrently on one manager run one at a time: while
\* a caller is inside a setter no other caller is, the lock is held exactly
\* then, and until the setter returns nobody else changes the state in
\* memory or the state file.  A setter starts by applying its update and
\* its timestamp to the state the previous one left, and what it saves is
\* that state; when it returns success the state file deserializes to the
\* state in memory, which holds its update: memory and file are the result
\* of the calls in the order they took the lock, and a tenant's entry is the
\* one of the SetBusinessAuth that took it last.
C34_Serialized ==
    /\ [](/\ \A c, d \in RaceCallers : InSetter(c) /\ InSetter(d) => c = d
          /\ mu["m1"] <=> \E c \in RaceCallers : InSetter(c))
    /\ [][\A c \in RaceCallers :
            InSetter(c) /\ call'[c] # Idling
            => /\ mem'[Of(c)] = mem[Of(c)]
               /\ call'[c].data = Marshal(mem[Of(c)][1])
               /\ disk'.state \in {disk.state, JsonFile(call[c].data)}]_vars
    /\ [][\A c \in RaceCallers :
            call[c] = Idling /\ call'[c] # Idling /\ mem[Of(c)] # <<>>
            => /\ Applied(call'[c].op, call'[c].arg, mem'[Of(c)][1])
               /\ mem'[Of(c)][1].Timestamp = clock'
               /\ call'[c].data = Marshal(mem'[Of(c)][1])]_vars
    /\ [](\A c \in RaceCallers :
            InSetter(c) /\ call[c].pc = "ret" /\ ~call[c].err
            => /\ Unmarshal(disk.state, ZeroState) =
                    [ok |-> TRUE, state |-> mem[Of(c)][1]]
               /\ Applied(call[c].op, call[c].arg, mem[Of(c)][1]))

\* the second goroutine's SetBusinessAuth is about to return success: it ran
\* after the first goroutine's, whose entry and channel were in the state
\* file it replaced, and the file now holds its entry and that channel
C34_Witness ==
    /\ call["g2"] # Idling /\ call["g2"].pc = "ret" /\ ~call["g2"].err
    /\ call["g2"].op = "SetBusinessAuth"
    /\ call["g2"].prev.form = "json"
    /\ "active_auth" \in DOMAIN call["g2"].prev.doc
    /\ call["g2"].prev.doc.active_auth["b1"].jwt_token = "jwt1"
    /\ "last_channel" \in DOMAIN disk.state.doc
    /\ disk.state.doc.last_channel = "telegram"
    /\ disk.state.doc.active_auth["b1"].jwt_token = "jwt2"

----------------------------------------------------------------------------
(* Properties of two managers over one workspace, under SpecShared. *)

\* C37 (as stated): with two managers running setters concurrently over one
\* workspace, the state file is at every instant absent or complete JSON,
\* the serialization of the state of one of the managers when it was
\* written, and no setter fails unless an I/O operation of its own failed.
C37_AsStated ==
    /\ disk.state.form \in {"absent", "json"}
    /\ faults = 0
       => \A m \in Managers :
            call[m].pc = "ret" => ~call[m].err

----------------------------------------------------------------------------
(* Properties of the setters' frame, under SpecFrame. *)

\* the call op(arg) has left alone, from the state before to the state
\* after, everything but its own field (or its tenant's entry); the
\* timestamp is not looked at
Frame(op, arg, before, after) ==
    CASE op = "SetLastChannel" ->
           /\ after.LastChatID = before.LastChatID
           /\ after.ActiveAuth = before.ActiveAuth
      [] op = "SetLastChatID" ->
           /\ after.LastChannel = before.LastChannel
           /\ after.ActiveAuth = before.ActiveAuth
      [] op = "SetBusinessAuth" ->
           /\ after.LastChannel = before.LastChannel
           /\ after.LastChatID = before.LastChatID
           /\ DOMAIN after.ActiveAuth = DOMAIN before.ActiveAuth \cup {arg.business}
           /\ \A b \in DOMAIN before.ActiveAuth \ {arg.business} :
                after.ActiveAuth[b] = before.ActiveAuth[b]

\* manager m's setter is about to return success
Succeeded(m) == call[m].pc = "ret" /\ call[m].op \in Setters /\ ~call[m].err

\* C40 (as stated): each setter changes only its own field and the
\* timestamp, in memory and in the persisted file: the file a setter has
\* written differs from the file it replaced in that field only.
C40_AsStated ==
    \A m \in SoleManager :
      Succeeded(m) /\ call[m].prev.form = "json"
      => Frame(call[m].op, call[m].arg,
               Unmarshal(call[m].prev, ZeroState).state,
               Unmarshal(disk.state, ZeroState).state)

\* C40: in memory each setter changes only its own field (its tenant's
\* entry) and the timestamp.  The file a setter has written is the state in
\* memory; against the file it replaced it differs in the setter's field
\* only when that file held the state in memory before the call, which it
\* does when the manager's previous save succeeded (after a failed save the
\* next one also writes the fields the failed calls changed).
C40_Frame ==
    /\ [][\A m \in SoleManager :
            call[m] = Idling /\ call'[m] # Idling /\ mem[m] # <<>>
            => Frame(call'[m].op, call'[m].arg, mem[m][1], mem'[m][1])]_vars
    /\ [](\A m \in SoleManager :
            Succeeded(m)
            => /\ Unmarshal(disk.state, ZeroState) =
                    [ok |-> TRUE, state |-> mem[m][1]]
               /\ persisted[m] /\ call[m].prev.form = "json"
                  => Frame(call[m].op, call[m].arg,
                           Unmarshal(call[m].prev, ZeroState).state,
                           Unmarshal(disk.state, ZeroState).state))

\* SetBusinessAuth for tenant b2 is about to return success, after a save
\* that succeeded: the file it replaced held a channel, a chat and the
\* entry of tenant b1, and the file it wrote holds them unchanged
C40_Witness ==
    /\ Succeeded("m1") /\ persisted["m1"]
    /\ call["m1"].op = "SetBusinessAuth" /\ call["m1"].arg.business = "b2"
    /\ call["m1"].prev.form = "json"
    /\ {"last_channel", "last_chat_id", "active_auth"} \subseteq DOMAIN call["m1"].prev.doc
    /\ DOMAIN call["m1"].prev.doc.active_auth = {"b1"}
    /\ DOMAIN disk.state.doc.active_auth = {"b1", "b2"}
    /\ disk.state.doc.active_auth["b1"] = call["m1"].prev.doc.active_auth["b1"]

====
